---- MODULE Spec2Model ----
(***************************************************************************)
(* Model of the numerical core of the ODE visualizer: the RK4 loops, the   *)
(* eigenvalue/classification engine, the fixed-point locator and the SIR   *)
(* threshold data.                                                         *)
(*                                                                         *)
(* Numbers.  A real v of the program is the integer v * Scale (fixed       *)
(* point, one unit = 1e-6).  Sums and differences are exact; a product or  *)
(* quotient is rounded to the nearest unit, where a double rounds to 16    *)
(* digits.  Products that a later subtraction cancels (the discriminant)   *)
(* are formed exactly.  Elapsed times, whose rounding decides how often a  *)
(* loop runs, are IEEE doubles (see Times below).                           *)
(***************************************************************************)
EXTENDS Integers, Sequences, FiniteSets, TLC

Kilo == 10 * 10 * 10
Scale == Kilo * Kilo

Abs(v) == IF v < 0 THEN -v ELSE v
Min(a, b) == IF a <= b THEN a ELSE b
Max(a, b) == IF a >= b THEN a ELSE b

(* The value of a one-element set: Only({e(v) : v \in {c}}) is e(c) with c *)
(* computed once.                                                          *)
Only(S) == CHOOSE e \in S : TRUE

(* Products.  With a = a1*Kilo + a0 and b = b1*Kilo + b0 (0 <= a0, b0 <    *)
(* Kilo), a*b = a1*b1*Scale + MulMid*Kilo + a0*b0, no term overflowing.     *)
MulMid(a, b) == (a \div Kilo) * (b % Kilo) + (a % Kilo) * (b \div Kilo)
MulLow(a, b) == (MulMid(a, b) % Kilo) * Kilo + (a % Kilo) * (b % Kilo)

(* The exact product a*b as hi*Scale + lo with 0 <= lo < Scale, in units   *)
(* of 1e-12.                                                                *)
Mul2(a, b) ==
  << (a \div Kilo) * (b \div Kilo) + (MulMid(a, b) \div Kilo) + (MulLow(a, b) \div Scale),
     MulLow(a, b) % Scale >>

(* a * b rounded to the nearest unit *)
Mul(a, b) ==
  (a \div Kilo) * (b \div Kilo) + (MulMid(a, b) \div Kilo)
    + ((MulLow(a, b) + (Scale \div 2)) \div Scale)

Add2(p, q) ==
  LET lo == p[2] + q[2]
  IN  << p[1] + q[1] + (lo \div Scale), lo % Scale >>

Neg2(p) == IF p[2] = 0 THEN << -p[1], 0 >> ELSE << -p[1] - 1, Scale - p[2] >>

Sub2(p, q) == Add2(p, Neg2(q))

Scale2(k, p) ==
  LET lo == k * p[2]
  IN  << k * p[1] + (lo \div Scale), lo % Scale >>

Leq2(p, q) == p[1] < q[1] \/ (p[1] = q[1] /\ p[2] <= q[2])

(* a / b rounded to the nearest unit, by long division.  A quotient beyond *)
(* the fixed-point range is reported as DivCap: every use compares it with *)
(* a far smaller threshold.                                                 *)
RECURSIVE DivDigits(_, _, _, _)
DivDigits(q, r, b, n) ==
  IF n = 0 THEN IF 2 * r >= b THEN q + 1 ELSE q
  ELSE DivDigits(q * 10 + ((r * 10) \div b), (r * 10) % b, b, n - 1)

DivCap == 2000 * Scale

DivPos(a, b) ==
  IF a \div b >= 2000 THEN DivCap ELSE DivDigits(a \div b, a % b, b, 6)

Div(a, b) ==
  Only({ IF (u < 0) = (v < 0) THEN DivPos(Abs(u), Abs(v)) ELSE -DivPos(Abs(u), Abs(v))
         : u \in {a}, v \in {b} })

(* Math.sqrt of a non-negative number given exactly as hi*Scale + lo:       *)
(* the largest r with r*r <= the number.                                    *)
RECURSIVE SqrtSearch(_, _, _)
SqrtSearch(p, lo, hi) ==
  IF lo >= hi THEN lo
  ELSE Only({ IF Leq2(Mul2(mid, mid), p) THEN SqrtSearch(p, mid, hi)
              ELSE SqrtSearch(p, lo, mid - 1)
              : mid \in {lo + ((hi - lo + 1) \div 2)} })

SqrtCap == 46000 * Kilo

Sqrt2(p) == Only({ SqrtSearch(v, 0, SqrtCap) : v \in {p} })

(* Math.round(v * 1000) / 1000 : to the nearest 1e-3, ties towards +inf *)
Round3(v) == ((v + (Kilo \div 2)) \div Kilo) * Kilo

(* v / n for a whole number n > 0, rounded to the nearest unit *)
DivInt(v, n) == IF v < 0 THEN -((2 * (-v) + n) \div (2 * n)) ELSE (2 * v + n) \div (2 * n)

(* the smallest whole number >= a / b, for b > 0 *)
CeilDiv(a, b) == -((-a) \div b)

----------------------------------------------------------------------------
(* Times.  The elapsed time of a loop is a double, and `t += step` rounds   *)
(* to 53 significant bits.  Every double that occurs here (the doubles in   *)
(* [1/32, 2), zero, and their sums and differences) is a whole multiple of  *)
(* 2^-57; a time is the pair << hi, lo >> of value (hi * Limb + lo) * 2^-57 *)
(* with 0 <= lo < Limb.                                                     *)
Limb == 2 ^ 29

DNorm(hi, lo) == << hi + (lo \div Limb), lo % Limb >>
DNeg(a) == DNorm(-a[1], -a[2])
DLess(a, b) == a[1] < b[1] \/ (a[1] = b[1] /\ a[2] < b[2])
DMin(a, b) == IF DLess(b, a) THEN b ELSE a

(* the number of bits by which hi * Limb + lo exceeds 53 bits *)
RECURSIVE ExtraBits(_)
ExtraBits(hi) == IF hi < 2 ^ 24 THEN 0 ELSE 1 + ExtraBits(hi \div 2)

(* m >= 0 rounded to a multiple of 2^k (0 < k < 29), to nearest, ties to    *)
(* the even multiple; sticky tells that digits were already dropped below m *)
DRoundBits(m, k, sticky) ==
  IF \/ m[2] % (2 ^ k) > 2 ^ (k - 1)
     \/ /\ m[2] % (2 ^ k) = 2 ^ (k - 1)
        /\ (sticky \/ (m[2] \div (2 ^ k)) % 2 = 1)
  THEN DNorm(m[1], m[2] - (m[2] % (2 ^ k)) + 2 ^ k)
  ELSE << m[1], m[2] - (m[2] % (2 ^ k)) >>

(* the double nearest to the exact value m >= 0 *)
DRound(m) == IF ExtraBits(m[1]) = 0 THEN m ELSE DRoundBits(m, ExtraBits(m[1]), FALSE)

(* a + b and a - b as the machine forms them, for a, b >= 0 and a - b >= 0 *)
DAdd(a, b) == DRound(DNorm(a[1] + b[1], a[2] + b[2]))
DSub(a, b) == DRound(DNorm(a[1] - b[1], a[2] - b[2]))

(* The double that a decimal literal denotes.  v is the literal in units of *)
(* 1e-6, 1/32 <= v * 1e-6 < 2 or v = 0; the quotient v * 2^58 / 10^6 =      *)
(* v * 2^52 / 5^6 is formed by long division in digits of 15 bits, rounded   *)
(* to 53 bits and halved.                                                   *)
RECURSIVE DigitsOf(_, _, _)
DigitsOf(acc, r, n) ==
  IF n = 0 THEN << acc[1], acc[2], r >>
  ELSE DigitsOf(<< acc[1] * (2 ^ 15) + (acc[2] \div (2 ^ 14)),
                   (acc[2] % (2 ^ 14)) * (2 ^ 15) + ((r * (2 ^ 15)) \div (5 ^ 6)) >>,
                (r * (2 ^ 15)) % (5 ^ 6), n - 1)

DHalve(m) == << m[1] \div 2, (m[1] % 2) * (2 ^ 28) + (m[2] \div 2) >>

ToDoublePos(v) ==
  Only({ DHalve(DRoundBits(<< q[1], q[2] >>, ExtraBits(q[1]), q[3] # 0))
         : q \in {DigitsOf(<< 0, (v * 128) \div (5 ^ 6) >>, (v * 128) % (5 ^ 6), 3)} })

ToDouble(v) ==
  IF v = 0 THEN << 0, 0 >> ELSE IF v < 0 THEN DNeg(ToDoublePos(-v)) ELSE ToDoublePos(v)

(* A double d >= 0 in units of 1e-6, to the nearest unit: d * 5^6 / 2^51,    *)
(* from the bits of d above 2^30 (the rest is below 1/64 of a unit).         *)
ToFixed(d) ==
  (((d[1] \div (2 ^ 16)) * (5 ^ 6)) \div 64)
    + (((((d[1] \div (2 ^ 16)) * (5 ^ 6)) % 64) * (2 ^ 15)
        + (((d[1] % (2 ^ 16)) \div 2) * (5 ^ 6)) + 2 ^ 20) \div (2 ^ 21))

----------------------------------------------------------------------------
(* State.  One call runs at a time: pc is the position inside the running  *)
(* function fn, args its arguments, the rest its locals.  The only state    *)
(* that outlives a call is the module-level sirThresholdCache.              *)
VARIABLES pc, fn, args, result,
          t, step, steps, x, y, P, sir, trajectory,
          fixedPoints, seenPoints, i, j, iter, remembered,
          sirThresholdCache, r0, peakIN, finalRN,
          evaluations, branch,
          visualizer, player

rkVars == << t, step, steps, x, y, P, sir, trajectory >>
(* findFixedPoints: its result list, its dedup set, the lattice indices and *)
(* the Newton counter; remembered holds one earlier call, its result and    *)
(* whether a call with other arguments followed it (the empty sequence:     *)
(* none), for comparing a later call with it.                               *)
fpVars == << fixedPoints, seenPoints, i, j, iter, remembered >>
cacheVars == << sirThresholdCache, r0, peakIN, finalRN >>
(* What a state-at-time query did: the number of evaluations of a right-    *)
(* hand side it made, and the branch of the queried function that produced  *)
(* the result.                                                              *)
queryVars == << evaluations, branch >>
(* The components: visualizer is the state of DynamicalSystemVisualizer      *)
(* (systemType, parameters, fixedPoints) with the effects of the committed   *)
(* renders that have not run yet; player is the time, tMax and isPlaying of  *)
(* a visualizer with a time slider.                                          *)
uiVars == << visualizer, player >>
vars == << pc, fn, args, result, rkVars, fpVars, cacheVars, queryVars, uiVars >>

None == "none"

----------------------------------------------------------------------------
(* Numbers that are not finite.  A division by zero gives an infinity or   *)
(* NaN, and these propagate through the arithmetic as IEEE 754 says.  They  *)
(* are the three integers no finite value of the model reaches: Infinity is *)
(* the largest, -Infinity its negative, NaN the one below.                  *)
Infinity == (2 ^ 30 - 1) * 2 + 1
NaN == -Infinity - 1

NonFinite(v) == v = NaN \/ v = Infinity \/ v = -Infinity

XNeg(a) == IF a = NaN THEN NaN ELSE -a

XAdd(a, b) ==
  IF a = NaN \/ b = NaN THEN NaN
  ELSE IF a = Infinity \/ a = -Infinity THEN (IF b = -a THEN NaN ELSE a)
  ELSE IF b = Infinity \/ b = -Infinity THEN b
  ELSE a + b

XSub(a, b) == XAdd(a, XNeg(b))

XMul(a, b) ==
  IF a = NaN \/ b = NaN THEN NaN
  ELSE IF NonFinite(a) \/ NonFinite(b)
  THEN (IF a = 0 \/ b = 0 THEN NaN
        ELSE IF (a < 0) = (b < 0) THEN Infinity ELSE -Infinity)
  ELSE Mul(a, b)

(* a / b; a zero divisor is +0 *)
XDiv(a, b) ==
  IF a = NaN \/ b = NaN THEN NaN
  ELSE IF NonFinite(a)
  THEN (IF NonFinite(b) THEN NaN ELSE IF (a < 0) = (b < 0) THEN Infinity ELSE -Infinity)
  ELSE IF NonFinite(b) THEN 0
  ELSE IF b = 0
  THEN (IF a = 0 THEN NaN ELSE IF a > 0 THEN Infinity ELSE -Infinity)
  ELSE Div(a, b)

(* a / n and n * a for a whole number n > 0 *)
XDivInt(a, n) == IF NonFinite(a) THEN a ELSE DivInt(a, n)
XTimes(n, a) == IF NonFinite(a) THEN a ELSE n * a

(* Math.max and Math.min return NaN when an argument is NaN; a comparison   *)
(* with NaN is false.                                                       *)
MathMax(a, b) == IF a = NaN \/ b = NaN THEN NaN ELSE Max(a, b)
MathMin(a, b) == IF a = NaN \/ b = NaN THEN NaN ELSE Min(a, b)
XLess(a, b) == a # NaN /\ b # NaN /\ a < b
XLeq(a, b) == a # NaN /\ b # NaN /\ a <= b

----------------------------------------------------------------------------
(* Math.exp, Math.cos and Math.sin, to a few units of 1e-6.  Taylor sums   *)
(* the power series whose terms are `stride` powers of z apart, from the    *)
(* term of index k on; the exponential of an argument beyond [-1, 1] is     *)
(* the square of that of its half, and is 0 to this unit below -16.         *)
RECURSIVE Taylor(_, _, _, _)
Taylor(term, z, k, stride) ==
  IF term = 0 \/ k > 24 THEN 0
  ELSE term + Taylor(IF stride = 1 THEN DivInt(Mul(term, z), k + 1)
                     ELSE -DivInt(Mul(Mul(term, z), z), (k + 1) * (k + 2)),
                     z, k + stride, stride)

RECURSIVE MathExp(_)
MathExp(z) ==
  IF z = NaN \/ z = Infinity THEN z
  ELSE IF z < -16 * Scale THEN 0
  ELSE IF Abs(z) <= Scale THEN Taylor(Scale, z, 0, 1)
  ELSE Only({ Mul(e, e) : e \in {MathExp(DivInt(z, 2))} })

(* Math.PI, and an angle brought into [-pi, pi] by whole turns before the    *)
(* series is summed                                                         *)
MathPI == 3141593
Turned(z) == z - DivInt(z, 2 * MathPI) * (2 * MathPI)

MathCos(z) == Taylor(Scale, Turned(z), 0, 2)
MathSin(z) == Taylor(Turned(z), Turned(z), 1, 2)

----------------------------------------------------------------------------
(* Parameters.  A SystemParameters object is a function from the system     *)
(* names it has an entry for to that entry; `parameters` undefined and {}   *)
(* are both the empty function, which is all `parameters?.k` can tell.      *)
NoParameters == [k \in {} |-> 0]
Has(parameters, k) == k \in DOMAIN parameters

defaultLotkaVolterra ==
  [alpha |-> Scale, beta |-> Scale \div 2, delta |-> Scale \div 2, gamma |-> Scale \div 2]

SystemTypes ==
  {"spiral", "saddle", "center", "vanDerPol", "lotkaVolterra", "duffing", "pendulum",
   "node", "focus"}

(* parameters?.spiral?.a ?? -1 and its like *)
Param(parameters, sys, key, dflt) ==
  IF Has(parameters, sys) THEN parameters[sys][key] ELSE dflt

vectorField(systemType, px, py, parameters) ==
  CASE systemType = "spiral" ->
         LET a == Param(parameters, "spiral", "a", -Scale)
             b == Param(parameters, "spiral", "b", -Scale)
         IN  << Mul(a, px) - Mul(b, py), Mul(b, px) + Mul(a, py) >>
    [] systemType = "saddle" -> << px, -py >>
    [] systemType = "center" -> << -py, px >>
    [] systemType = "lotkaVolterra" ->
         LET alpha == Param(parameters, "lotkaVolterra", "alpha", Scale)
             beta  == Param(parameters, "lotkaVolterra", "beta", Scale \div 2)
             delta == Param(parameters, "lotkaVolterra", "delta", Scale \div 2)
             gamma == Param(parameters, "lotkaVolterra", "gamma", Scale \div 2)
         IN  << Mul(px, alpha - Mul(beta, py)), Mul(py, Mul(delta, px) - gamma) >>
    [] systemType = "node" -> << -2 * px, -py >>
    [] systemType = "focus" ->
         LET a == Param(parameters, "focus", "a", Scale)
             b == Param(parameters, "focus", "b", Scale)
         IN  << Mul(a, px) - Mul(b, py), Mul(b, px) + Mul(a, py) >>
    [] systemType = "vanDerPol" ->
         LET mu == Param(parameters, "vanDerPol", "mu", Scale \div 2)
         IN  << py, -px + Mul(Mul(mu, Scale - Mul(px, px)), py) >>
    [] systemType = "duffing" ->
         LET delta == Param(parameters, "duffing", "delta", Scale \div 10)
         IN  << py, -px - Mul(Mul(px, px), px) - Mul(delta, py) >>
    [] systemType = "pendulum" ->
         LET delta == Param(parameters, "pendulum", "delta", Scale \div 10)
         IN  << py, -MathSin(px) - Mul(delta, py) >>
    [] OTHER -> << 0, 0 >>

----------------------------------------------------------------------------
(* solveODE (lib/odeSolver.ts).  The loop runs while t < time; every        *)
(* iteration uses dt for the four stages and adds dt to t.  (dt / 6) * sum  *)
(* is formed as (dt * sum) / 6: dt / 6 alone has no exact fixed-point form. *)
LoopGuardLeq(elapsed, target) == ~DLess(target, elapsed)
LoopGuardNever(elapsed, target) == FALSE
LoopGuard(elapsed, target) == DLess(elapsed, target)

solveODEStep(systemType, px, py, dt, parameters) ==
  Only({ Only({ Only({ Only({
    << px + DivInt(Mul(dt, k1[1] + 2 * k2[1] + 2 * k3[1] + k4[1]), 6),
       py + DivInt(Mul(dt, k1[2] + 2 * k2[2] + 2 * k3[2] + k4[2]), 6) >>
    : k4 \in {vectorField(systemType, px + Mul(dt, k3[1]), py + Mul(dt, k3[2]), parameters)} })
    : k3 \in {vectorField(systemType, px + DivInt(Mul(dt, k2[1]), 2),
                          py + DivInt(Mul(dt, k2[2]), 2), parameters)} })
    : k2 \in {vectorField(systemType, px + DivInt(Mul(dt, k1[1]), 2),
                          py + DivInt(Mul(dt, k1[2]), 2), parameters)} })
    : k1 \in {vectorField(systemType, px, py, parameters)} })

----------------------------------------------------------------------------
(* Interacting models: vectorField and solveTrajectory.                     *)
DEFAULT ==
  [alpha |-> Scale, beta |-> Scale \div 2, delta |-> Scale \div 2, gamma |-> Scale \div 2,
   epsilon |-> Scale \div 10, eta |-> Scale \div 10,
   r1 |-> Scale, K1 |-> 100 * Scale, a12 |-> Scale \div 2,
   r2 |-> 8 * (Scale \div 10), K2 |-> 80 * Scale, a21 |-> Scale \div 2,
   richardsonK |-> Scale \div 2, richardsonL |-> Scale \div 2,
   richardsonAlpha |-> Scale \div 5, richardsonBeta |-> Scale \div 5,
   g |-> Scale, h |-> Scale]

(* { ...DEFAULT, ...p } *)
getParams(p) == [k \in DOMAIN DEFAULT |-> IF k \in DOMAIN p THEN p[k] ELSE DEFAULT[k]]

interactingVectorFieldOf(model, p, px, py) ==
      CASE model = "lotkaVolterra" ->
             << Mul(px, p.alpha - Mul(p.beta, py)), Mul(py, Mul(p.delta, px) - p.gamma) >>
        [] model = "lotkaVolterraSelfLimit" ->
             << Mul(px, p.alpha - Mul(p.beta, py) - Mul(p.epsilon, px)),
                Mul(py, -p.gamma + Mul(p.delta, px) - Mul(p.eta, py)) >>
        [] model = "lotkaVolterraCompetition" ->
             << Mul(Mul(p.r1, px), Scale - Div(px, p.K1) - Div(Mul(p.a12, py), p.K1)),
                Mul(Mul(p.r2, py), Scale - Div(py, p.K2) - Div(Mul(p.a21, px), p.K2)) >>
        [] model = "richardson" ->
             << Mul(p.richardsonK, py) - Mul(p.richardsonAlpha, px) + p.g,
                Mul(p.richardsonL, px) - Mul(p.richardsonBeta, py) + p.h >>
        [] OTHER -> << 0, 0 >>

interactingVectorField(model, params, px, py) ==
  Only({ interactingVectorFieldOf(model, p, px, py) : p \in {getParams(params)} })

(* Math.min(dt, tMax - t) *)
ClipStep(dt, remaining) == DMin(dt, remaining)

solveTrajectoryStep(model, params, px, py, h) ==
  Only({ Only({ Only({ Only({
    << px + DivInt(Mul(h, d1[1] + 2 * d2[1] + 2 * d3[1] + d4[1]), 6),
       py + DivInt(Mul(h, d1[2] + 2 * d2[2] + 2 * d3[2] + d4[2]), 6) >>
    : d4 \in {interactingVectorField(model, params, px + Mul(h, d3[1]), py + Mul(h, d3[2]))} })
    : d3 \in {interactingVectorField(model, params, px + DivInt(Mul(h, d2[1]), 2),
                                     py + DivInt(Mul(h, d2[2]), 2))} })
    : d2 \in {interactingVectorField(model, params, px + DivInt(Mul(h, d1[1]), 2),
                                     py + DivInt(Mul(h, d1[2]), 2))} })
    : d1 \in {interactingVectorField(model, params, px, py)} })

----------------------------------------------------------------------------
(* Population models: harvestingSolution and alleeSolution.                 *)
harvestingRhsUnharvested(p, r, K, H) == XMul(XMul(r, p), XSub(Scale, XDiv(p, K)))
harvestingRhs(p, r, K, H) ==
  XSub(XMul(XMul(r, p), XSub(Scale, XDiv(p, K))), H)

harvestingStep(p, r, K, H, h) ==
  Only({ Only({ Only({ Only({
    MathMax(0, XAdd(p, XDivInt(XMul(h, XAdd(XAdd(k1, XTimes(2, k2)),
                                             XAdd(XTimes(2, k3), k4))), 6)))
    : k4 \in {harvestingRhs(XAdd(p, XMul(h, k3)), r, K, H)} })
    : k3 \in {harvestingRhs(XAdd(p, XDivInt(XMul(h, k2), 2)), r, K, H)} })
    : k2 \in {harvestingRhs(XAdd(p, XDivInt(XMul(h, k1), 2)), r, K, H)} })
    : k1 \in {harvestingRhs(p, r, K, H)} })

alleeRhs(p, r, K, A) ==
  IF p <= 0 THEN 0
  ELSE Mul(Mul(Mul(Div(r, K), p), Scale - Div(p, K)), p - A)

alleeStep(p, r, K, A, h) ==
  Only({ Only({ Only({ Only({
    Max(0, p + DivInt(Mul(h, k1 + 2 * k2 + 2 * k3 + k4), 6))
    : k4 \in {alleeRhs(p + Mul(h, k3), r, K, A)} })
    : k3 \in {alleeRhs(p + DivInt(Mul(h, k2), 2), r, K, A)} })
    : k2 \in {alleeRhs(p + DivInt(Mul(h, k1), 2), r, K, A)} })
    : k1 \in {alleeRhs(p, r, K, A)} })

----------------------------------------------------------------------------
(* Epidemic models: sirRhs and one iteration of the loop of sirSolution.    *)
sirRhs(S, I, R, beta, gamma) ==
  << -Mul(Mul(beta, S), I), Mul(Mul(beta, S), I) - Mul(gamma, I), Mul(gamma, I) >>

sirStep(c, beta, gamma, h) ==
  Only({ Only({ Only({ Only({
    << Max(0, c[1] + DivInt(Mul(h, d1[1] + 2 * d2[1] + 2 * d3[1] + d4[1]), 6)),
       Max(0, c[2] + DivInt(Mul(h, d1[2] + 2 * d2[2] + 2 * d3[2] + d4[2]), 6)),
       Max(0, c[3] + DivInt(Mul(h, d1[3] + 2 * d2[3] + 2 * d3[3] + d4[3]), 6)) >>
    : d4 \in {sirRhs(c[1] + Mul(h, d3[1]), c[2] + Mul(h, d3[2]), c[3] + Mul(h, d3[3]),
                     beta, gamma)} })
    : d3 \in {sirRhs(c[1] + DivInt(Mul(h, d2[1]), 2), c[2] + DivInt(Mul(h, d2[2]), 2),
                     c[3] + DivInt(Mul(h, d2[3]), 2), beta, gamma)} })
    : d2 \in {sirRhs(c[1] + DivInt(Mul(h, d1[1]), 2), c[2] + DivInt(Mul(h, d1[2]), 2),
                     c[3] + DivInt(Mul(h, d1[3]), 2), beta, gamma)} })
    : d1 \in {sirRhs(c[1], c[2], c[3], beta, gamma)} })

----------------------------------------------------------------------------
(* Inputs of the RK4 loops.  Target times are the decimal literals -0.1,    *)
(* 0, 0.1, ..., MaxTenths / 10; steps are 0.1 and multiples of a quarter.   *)
MaxTenths == 10
MaxDtQuarters == 2
Times == {k * (Scale \div 10) : k \in -1 .. MaxTenths}
StepSizes == {Scale \div 10} \cup {k * (Scale \div 4) : k \in 1 .. MaxDtQuarters}

OdeSystems == {"center", "saddle"}
OdePoints == {<< Scale, 0 >>, << Scale \div 2, -(Scale \div 2) >>}
InteractingModels == {"lotkaVolterra", "richardson"}
HarvestRates == {5 * Scale, 20 * Scale}
Epidemics ==
  {[beta |-> 3000, S0 |-> 99 * Scale], [beta |-> 30000, S0 |-> 99 * Scale],
   [beta |-> 4 * Scale, S0 |-> 4 * Scale]}
InitialPopulations == {-Scale, 2 * Scale, 50 * Scale}
Capacities == {0, 100 * Scale}

(* A call starts from the idle state or after an earlier call returned; the *)
(* locals of the earlier call are gone by then.                             *)
Idle == pc \in {"idle", "done"}

(* ---- solveODE(systemType, initialPoint, time, dt, parameters) ---- *)
CallSolveODEIn(times, stepSizes) ==
  /\ Idle
  /\ \E systemType \in OdeSystems, initialPoint \in OdePoints,
        time \in times, dt \in stepSizes :
       /\ args' = [systemType |-> systemType, initialPoint |-> initialPoint,
                   time |-> time, dt |-> dt, parameters |-> NoParameters]
       /\ trajectory' = << initialPoint >>
       /\ x' = initialPoint[1]
       /\ y' = initialPoint[2]
  /\ fn' = "solveODE"
  /\ pc' = "loop"
  /\ t' = << 0, 0 >>
  /\ step' = << 0, 0 >>
  /\ steps' = 0
  /\ P' = 0
  /\ sir' = << 0, 0, 0 >>
  /\ result' = << >>
  /\ UNCHANGED << fpVars, cacheVars, queryVars, uiVars >>

CallSolveODE == CallSolveODEIn(Times, StepSizes)

StepSolveODE ==
  /\ pc = "loop" /\ fn = "solveODE"
  /\ LoopGuard(t, ToDouble(args.time))
  /\ \E dt \in {ToDouble(args.dt)} :
       /\ \E h \in {ToFixed(dt)} :
            \E next \in {solveODEStep(args.systemType, x, y, h, args.parameters)} :
              /\ x' = next[1]
              /\ y' = next[2]
              /\ trajectory' = Append(trajectory, next)
       /\ \E elapsed \in {DAdd(t, dt)} : t' = elapsed
       /\ step' = dt
  /\ steps' = steps + 1
  /\ UNCHANGED << pc, fn, args, result, P, sir >>
  /\ UNCHANGED << fpVars, cacheVars, queryVars, uiVars >>

ReturnSolveODE ==
  /\ pc = "loop" /\ fn = "solveODE"
  /\ ~LoopGuard(t, ToDouble(args.time))
  /\ result' = trajectory
  /\ pc' = "done"
  /\ UNCHANGED << fn, args, rkVars >>
  /\ UNCHANGED << fpVars, cacheVars, queryVars, uiVars >>

(* ---- solveTrajectory(model, params, x0, y0, tMax, dt) ---- *)
CallSolveTrajectoryIn(times, stepSizes) ==
  /\ Idle
  /\ \E model \in InteractingModels, tMax \in times, dt \in stepSizes :
       args' = [model |-> model, params |-> NoParameters, x0 |-> Scale, y0 |-> Scale,
                time |-> tMax, dt |-> dt]
  /\ trajectory' = << << << 0, 0 >>, Scale, Scale >> >>
  /\ x' = Scale
  /\ y' = Scale
  /\ fn' = "solveTrajectory"
  /\ pc' = "loop"
  /\ t' = << 0, 0 >>
  /\ step' = << 0, 0 >>
  /\ steps' = 0
  /\ P' = 0
  /\ sir' = << 0, 0, 0 >>
  /\ result' = << >>
  /\ UNCHANGED << fpVars, cacheVars, queryVars, uiVars >>

CallSolveTrajectory == CallSolveTrajectoryIn(Times, StepSizes)

StepSolveTrajectory ==
  /\ pc = "loop" /\ fn = "solveTrajectory"
  /\ LoopGuard(t, ToDouble(args.time))
  /\ \E h \in {ClipStep(ToDouble(args.dt), DSub(ToDouble(args.time), t))} :
       \E size \in {ToFixed(h)}, elapsed \in {DAdd(t, h)} :
         \E next \in {solveTrajectoryStep(args.model, args.params, x, y, size)} :
           /\ step' = h
           /\ x' = next[1]
           /\ y' = next[2]
           /\ t' = elapsed
           /\ trajectory' = Append(trajectory, << elapsed, next[1], next[2] >>)
  /\ steps' = steps + 1
  /\ UNCHANGED << pc, fn, args, result, P, sir >>
  /\ UNCHANGED << fpVars, cacheVars, queryVars, uiVars >>

ReturnSolveTrajectory ==
  /\ pc = "loop" /\ fn = "solveTrajectory"
  /\ ~LoopGuard(t, ToDouble(args.time))
  /\ result' = trajectory
  /\ pc' = "done"
  /\ UNCHANGED << fn, args, rkVars >>
  /\ UNCHANGED << fpVars, cacheVars, queryVars, uiVars >>

(* ---- harvestingSolution(P0, r, K, H, t, dt) ---- *)
CallHarvestingSolution ==
  /\ Idle
  /\ \E P0 \in InitialPopulations, K \in Capacities, H \in HarvestRates,
        time \in Times, dt \in StepSizes :
       /\ args' = [P0 |-> P0, r |-> Scale \div 2, K |-> K, H |-> H,
                   time |-> time, dt |-> dt]
       /\ P' = Max(0, P0)
  /\ fn' = "harvestingSolution"
  /\ pc' = "loop"
  /\ t' = << 0, 0 >>
  /\ step' = << 0, 0 >>
  /\ steps' = 0
  /\ x' = 0 /\ y' = 0
  /\ sir' = << 0, 0, 0 >>
  /\ trajectory' = << >>
  /\ result' = << >>
  /\ UNCHANGED << fpVars, cacheVars, queryVars, uiVars >>

StepHarvestingSolution ==
  /\ pc = "loop" /\ fn = "harvestingSolution"
  /\ LoopGuard(t, ToDouble(args.time))
  /\ LET h == ClipStep(ToDouble(args.dt), DSub(ToDouble(args.time), t))
     IN  /\ step' = h
         /\ P' = harvestingStep(P, args.r, args.K, args.H, ToFixed(h))
         /\ t' = DAdd(t, h)
  /\ steps' = steps + 1
  /\ UNCHANGED << pc, fn, args, result, x, y, sir, trajectory >>
  /\ UNCHANGED << fpVars, cacheVars, queryVars, uiVars >>

ReturnHarvestingSolution ==
  /\ pc = "loop" /\ fn = "harvestingSolution"
  /\ ~LoopGuard(t, ToDouble(args.time))
  /\ result' = P
  /\ pc' = "done"
  /\ UNCHANGED << fn, args, rkVars >>
  /\ UNCHANGED << fpVars, cacheVars, queryVars, uiVars >>

(* ---- alleeSolution(P0, r, K, A, t, dt) ---- *)
CallAlleeSolution ==
  /\ Idle
  /\ \E P0 \in {10 * Scale, 30 * Scale}, time \in Times, dt \in StepSizes :
       /\ args' = [P0 |-> P0, r |-> Scale \div 2, K |-> 100 * Scale, A |-> 20 * Scale,
                   time |-> time, dt |-> dt]
       /\ P' = Max(0, P0)
  /\ fn' = "alleeSolution"
  /\ pc' = "loop"
  /\ t' = << 0, 0 >>
  /\ step' = << 0, 0 >>
  /\ steps' = 0
  /\ x' = 0 /\ y' = 0
  /\ sir' = << 0, 0, 0 >>
  /\ trajectory' = << >>
  /\ result' = << >>
  /\ UNCHANGED << fpVars, cacheVars, queryVars, uiVars >>

StepAlleeSolution ==
  /\ pc = "loop" /\ fn = "alleeSolution"
  /\ LoopGuard(t, ToDouble(args.time))
  /\ LET h == ClipStep(ToDouble(args.dt), DSub(ToDouble(args.time), t))
     IN  /\ step' = h
         /\ P' = alleeStep(P, args.r, args.K, args.A, ToFixed(h))
         /\ t' = DAdd(t, h)
  /\ steps' = steps + 1
  /\ UNCHANGED << pc, fn, args, result, x, y, sir, trajectory >>
  /\ UNCHANGED << fpVars, cacheVars, queryVars, uiVars >>

ReturnAlleeSolution ==
  /\ pc = "loop" /\ fn = "alleeSolution"
  /\ ~LoopGuard(t, ToDouble(args.time))
  /\ result' = P
  /\ pc' = "done"
  /\ UNCHANGED << fn, args, rkVars >>
  /\ UNCHANGED << fpVars, cacheVars, queryVars, uiVars >>

(* ---- sirSolution(t, beta, gamma, S0, I0, R0, dt) ---- *)
CallSirSolution ==
  /\ Idle
  /\ \E e \in Epidemics, I0 \in {Scale, -Scale}, time \in Times, dt \in StepSizes :
       /\ args' = [beta |-> e.beta, gamma |-> Scale \div 10, S0 |-> e.S0, I0 |-> I0,
                   R0 |-> 0, time |-> time, dt |-> dt]
       /\ sir' = << Max(0, e.S0), Max(0, I0), Max(0, 0) >>
  /\ fn' = "sirSolution"
  /\ pc' = "loop"
  /\ t' = << 0, 0 >>
  /\ step' = << 0, 0 >>
  /\ steps' = 0
  /\ x' = 0 /\ y' = 0
  /\ P' = 0
  /\ trajectory' = << >>
  /\ result' = << >>
  /\ UNCHANGED << fpVars, cacheVars, queryVars, uiVars >>

StepSirSolution ==
  /\ pc = "loop" /\ fn = "sirSolution"
  /\ LoopGuard(t, ToDouble(args.time))
  /\ LET h == ClipStep(ToDouble(args.dt), DSub(ToDouble(args.time), t))
     IN  /\ step' = h
         /\ sir' = sirStep(sir, args.beta, args.gamma, ToFixed(h))
         /\ t' = DAdd(t, h)
  /\ steps' = steps + 1
  /\ UNCHANGED << pc, fn, args, result, x, y, P, trajectory >>
  /\ UNCHANGED << fpVars, cacheVars, queryVars, uiVars >>

ReturnSirSolution ==
  /\ pc = "loop" /\ fn = "sirSolution"
  /\ ~LoopGuard(t, ToDouble(args.time))
  /\ result' = [S |-> sir[1], I |-> sir[2], R |-> sir[3]]
  /\ pc' = "done"
  /\ UNCHANGED << fn, args, rkVars >>
  /\ UNCHANGED << fpVars, cacheVars, queryVars, uiVars >>

(* ---- DynamicalSystemVisualizer: state and effects ---- *)
(* An effect of a committed render that has not run yet, with the values    *)
(* of systemType and parameters its closure captured.                        *)
ResetEffect(systemType) ==
  [effect |-> "reset", systemType |-> systemType, parameters |-> NoParameters]
FindEffect(systemType, parameters) ==
  [effect |-> "find", systemType |-> systemType, parameters |-> parameters]

(* useState('center'), useState({}), useState([]); the first render has     *)
(* both effects to run                                                       *)
VisualizerMounted ==
  [systemType |-> "center", parameters |-> NoParameters, fixedPoints |-> << >>,
   effects |-> << ResetEffect("center"), FindEffect("center", NoParameters) >>]

(* ---- the time slider of a model visualizer ---- *)
T_MAX_DEFAULT == 10 * Scale
(* useState(0), useState(T_MAX_DEFAULT), useState(false) *)
PlayerMounted == [time |-> 0, tMax |-> T_MAX_DEFAULT, isPlaying |-> FALSE]

Init ==
  /\ pc = "idle"
  /\ fn = None
  /\ args = NoParameters
  /\ result = << >>
  /\ t = << 0, 0 >> /\ step = << 0, 0 >> /\ steps = 0
  /\ x = 0 /\ y = 0 /\ P = 0
  /\ sir = << 0, 0, 0 >>
  /\ trajectory = << >>
  /\ fixedPoints = << >> /\ seenPoints = {}
  /\ i = 0 /\ j = 0 /\ iter = 0
  /\ remembered = << >>
  /\ sirThresholdCache = << >>
  /\ r0 = << >> /\ peakIN = << >> /\ finalRN = << >>
  /\ evaluations = 0 /\ branch = None
  /\ visualizer = VisualizerMounted
  /\ player = PlayerMounted

NextRK ==
  \/ CallSolveODE \/ StepSolveODE \/ ReturnSolveODE
  \/ CallSolveTrajectory \/ StepSolveTrajectory \/ ReturnSolveTrajectory
  \/ CallHarvestingSolution \/ StepHarvestingSolution \/ ReturnHarvestingSolution
  \/ CallAlleeSolution \/ StepAlleeSolution \/ ReturnAlleeSolution
  \/ CallSirSolution \/ StepSirSolution \/ ReturnSirSolution

SpecRK == Init /\ [][NextRK]_vars

----------------------------------------------------------------------------
(* Eigenvalues and classification (lib/odeSolver.ts) and their display      *)
(* (components/FixedPointsInfo.tsx).  A Jacobian is << <<a, b>>, <<c, d>> >> *)
(* in units of 1e-6.  An eigenvalue is half of a sum of whole units, so     *)
(* eigenvalues are kept in units of 1e-7 (EigScale to one):                  *)
(* (trace + sqrtD) / 2 is (trace + sqrtD) * 5.  The determinant and the      *)
(* discriminant are exact, as hi * Scale + lo in units of 1e-12.             *)
EigScale == 10 * Scale

trace(jacobian) == jacobian[1][1] + jacobian[2][2]

det(jacobian) ==
  Sub2(Mul2(jacobian[1][1], jacobian[2][2]), Mul2(jacobian[1][2], jacobian[2][1]))

discriminant(jacobian) ==
  Sub2(Mul2(trace(jacobian), trace(jacobian)), Scale2(4, det(jacobian)))

(* discriminant >= 0 *)
RealBranchStrict(D) == D[1] > 0 \/ (D[1] = 0 /\ D[2] > 0)
RealBranch(D) == Leq2(<< 0, 0 >>, D)

computeEigenvalues(jacobian) ==
  Only({ IF RealBranch(D)
         THEN << (trace(jacobian) + Sqrt2(D)) * 5, (trace(jacobian) - Sqrt2(D)) * 5 >>
         ELSE << trace(jacobian) * 5, Sqrt2(Neg2(D)) * 5,
                 trace(jacobian) * 5, -(Sqrt2(Neg2(D)) * 5) >>
         : D \in {discriminant(jacobian)} })

(* Math.abs(lambda) < eps, eps = 1e-6 *)
ClassifyEps == EigScale \div Scale
NearZeroExact(lambda) == lambda = 0
NearZero(lambda) == Abs(lambda) < ClassifyEps

(* lambda1 * lambda2 < 0: the product of two doubles of this size is         *)
(* negative exactly when the factors have opposite signs.                    *)
Sign(v) == IF v < 0 THEN -1 ELSE IF v > 0 THEN 1 ELSE 0

Class(type, stability) == [type |-> type, stability |-> stability]

classifyFixedPoint(eigenvalues) ==
  IF Len(eigenvalues) = 2
  THEN IF NearZero(eigenvalues[1]) /\ NearZero(eigenvalues[2])
       THEN Class("center", "semi-stable")
       ELSE IF Sign(eigenvalues[1]) * Sign(eigenvalues[2]) < 0
       THEN Class("saddle", "unstable")
       ELSE IF eigenvalues[1] < 0 /\ eigenvalues[2] < 0
       THEN Class("stable-node", "stable")
       ELSE IF eigenvalues[1] > 0 /\ eigenvalues[2] > 0
       THEN Class("unstable-node", "unstable")
       ELSE Class("center", "semi-stable")
  ELSE IF NearZero(eigenvalues[1])
       THEN Class("center", "semi-stable")
       ELSE IF eigenvalues[1] < 0
       THEN Class("stable-spiral", "stable")
       ELSE Class("unstable-spiral", "unstable")

(* v.toFixed(3), as a whole number of thousandths: to the nearest           *)
(* thousandth, a tie away from zero.                                         *)
toFixed3(v) ==
  IF v < 0 THEN -((-v + (EigScale \div (2 * Kilo))) \div (EigScale \div Kilo))
  ELSE (v + (EigScale \div (2 * Kilo))) \div (EigScale \div Kilo)

(* formatEigenvalue: the two displayed eigenvalues, each << real >> or       *)
(* << real, sign, imaginary >> as the template prints them.                  *)
formatEigenvalue(eigenvalues) ==
  IF Len(eigenvalues) = 2
  THEN << << toFixed3(eigenvalues[1]) >>, << toFixed3(eigenvalues[2]) >> >>
  ELSE IF Abs(eigenvalues[2]) < EigScale \div Kilo
  THEN << << toFixed3(eigenvalues[1]) >>, << toFixed3(eigenvalues[3]) >> >>
  ELSE << << toFixed3(eigenvalues[1]), IF eigenvalues[2] >= 0 THEN "+" ELSE "",
             toFixed3(eigenvalues[2]) >>,
          << toFixed3(eigenvalues[3]), IF eigenvalues[4] >= 0 THEN "+" ELSE "",
             toFixed3(eigenvalues[4]) >> >>

(* What addFixedPoint stores for a point with these eigenvalues, and what    *)
(* the panel shows for it.                                                   *)
Classified(eigenvalues) ==
  [eigenvalues |-> eigenvalues,
   type |-> classifyFixedPoint(eigenvalues).type,
   stability |-> classifyFixedPoint(eigenvalues).stability,
   display |-> formatEigenvalue(eigenvalues)]

(* The two functions are pure: each behaviour applies one of them to one    *)
(* input.                                                                    *)
(* Inputs: Jacobians with whole entries up to MaxEntry, and eigenvalue       *)
(* arrays as computeEigenvalues lays them out (lambda1 >= lambda2 for a real *)
(* pair, imaginary part > 0 first), with parts below and above eps.          *)
MaxEntry == 2
Entries == {k * Scale : k \in -MaxEntry .. MaxEntry}
Jacobians == {<< << a, b >>, << c, d >> >> : a \in Entries, b \in Entries,
                                               c \in Entries, d \in Entries}
EigParts == {-EigScale, -(ClassifyEps \div 2), 0, ClassifyEps \div 2, EigScale}
EigenvalueArrays ==
  {pair \in EigParts \X EigParts : pair[1] >= pair[2]}
    \cup {<< re, im, re, -im >> : re \in EigParts, im \in {ClassifyEps \div 2, EigScale}}

CallComputeEigenvalues ==
  /\ pc = "idle"
  /\ \E jacobian \in Jacobians :
       /\ args' = [jacobian |-> jacobian]
       /\ result' = Classified(computeEigenvalues(jacobian))
  /\ fn' = "computeEigenvalues"
  /\ pc' = "done"
  /\ UNCHANGED rkVars
  /\ UNCHANGED << fpVars, cacheVars, queryVars, uiVars >>

CallClassifyFixedPoint ==
  /\ pc = "idle"
  /\ \E eigenvalues \in EigenvalueArrays :
       /\ args' = [eigenvalues |-> eigenvalues]
       /\ result' = Classified(eigenvalues)
  /\ fn' = "classifyFixedPoint"
  /\ pc' = "done"
  /\ UNCHANGED rkVars
  /\ UNCHANGED << fpVars, cacheVars, queryVars, uiVars >>

NextEig == CallComputeEigenvalues \/ CallClassifyFixedPoint

SpecEig == Init /\ [][NextEig]_vars

----------------------------------------------------------------------------
(* findFixedPoints (lib/odeSolver.ts).                                       *)

(* computeJacobian: central differences, four evaluations of the field.     *)
(* Every field searched here (FPSystems) is affine in x and affine in y, so *)
(* the quotient (f(x + e) - f(x - e)) / (2 e) is the same for every e; it is *)
(* formed with e = JacobianStep = 1 where the code takes 1e-6, a step one    *)
(* unit of this fixed point cannot resolve.                                  *)
JacobianStep == Scale

(* The pendulum field is not affine in x: there the quotient with e = 1e-6  *)
(* is the derivative -cos(x) to well below the unit, and is entered as it.  *)
computeJacobian(systemType, px, py, parameters) ==
  IF systemType = "pendulum"
  THEN << << 0, Scale >>,
          << -MathCos(px), -Param(parameters, "pendulum", "delta", Scale \div 10) >> >>
  ELSE
  Only({ << << Div(f1[1] - f2[1], 2 * JacobianStep), Div(f3[1] - f4[1], 2 * JacobianStep) >>,
            << Div(f1[2] - f2[2], 2 * JacobianStep), Div(f3[2] - f4[2], 2 * JacobianStep) >> >>
         : f1 \in {vectorField(systemType, px + JacobianStep, py, parameters)},
           f2 \in {vectorField(systemType, px - JacobianStep, py, parameters)},
           f3 \in {vectorField(systemType, px, py + JacobianStep, parameters)},
           f4 \in {vectorField(systemType, px, py - JacobianStep, parameters)} })

toleranceLoose == Scale
toleranceZero == 0 * Scale
tolerance == 100
maxIterations == 50

(* Math.sqrt(fx * fx + fy * fy).  Beyond the range of the exact product the *)
(* larger component stands for it: it is at least 1 and only ever compared  *)
(* with the tolerance.                                                       *)
magnitude(f) ==
  IF Abs(f[1]) >= Scale \/ Abs(f[2]) >= Scale THEN Max(Abs(f[1]), Abs(f[2]))
  ELSE Sqrt2(Add2(Mul2(f[1], f[1]), Mul2(f[2], f[2])))

(* `${Math.round(x * 1000) / 1000},${Math.round(y * 1000) / 1000}`: the key  *)
(* is the pair of rounded coordinates (a rounded -0 prints as "0", so the   *)
(* literal key '0,0' of the origin is << 0, 0 >>).                           *)
KeyUnrounded(px, py) == << px, py >>
Key(px, py) == << Round3(px), Round3(py) >>

HasNever(seen, key) == FALSE
Has2(seen, key) == key \in seen

(* the FixedPoint record pushed for a point *)
FixedPointAt(systemType, px, py, parameters) ==
  Only({ [x |-> px, y |-> py, type |-> classifyFixedPoint(e).type, eigenvalues |-> e,
          stability |-> classifyFixedPoint(e).stability]
         : e \in {computeEigenvalues(jacobian)
                    : jacobian \in {computeJacobian(systemType, px, py, parameters)}} })

(* addFixedPoint(x, y): the list and the set after the call *)
addFixedPoint(fps, seen, systemType, px, py, parameters) ==
  IF magnitude(vectorField(systemType, px, py, parameters)) >= tolerance THEN << fps, seen >>
  ELSE IF Has2(seen, Key(px, py)) THEN << fps, seen >>
  ELSE << Append(fps, FixedPointAt(systemType, px, py, parameters)),
          seen \cup {Key(px, py)} >>

InRange(searchRange, px, py) ==
  /\ px >= searchRange.minX /\ px <= searchRange.maxX
  /\ py >= searchRange.minY /\ py <= searchRange.maxY

(* iterate beyond the rectangle enlarged by 2 *)
OutOfBoundsNever(searchRange, px, py) == FALSE
OutOfBoundsBy3(searchRange, px, py) ==
  \/ px < searchRange.minX - 3 * Scale \/ px > searchRange.maxX + 3 * Scale
  \/ py < searchRange.minY - 3 * Scale \/ py > searchRange.maxY + 3 * Scale
OutOfBounds(searchRange, px, py) ==
  \/ px < searchRange.minX - 2 * Scale \/ px > searchRange.maxX + 2 * Scale
  \/ py < searchRange.minY - 2 * Scale \/ py > searchRange.maxY + 2 * Scale

(* an exact product sum in units of 1e-6 *)
Units(p) == p[1] + (IF 2 * p[2] >= Scale THEN 1 ELSE 0)

(* Math.abs(det) < 1e-10, on the exact determinant *)
Singular(d) == Leq2(<< -1, Scale - 99 >>, d) /\ Leq2(d, << 0, 99 >>)

stepLimit == Scale \div 2
LimitedUnsigned(d) == IF Abs(d) > stepLimit THEN stepLimit ELSE d
Limited(d) == IF Abs(d) > stepLimit THEN (IF d > 0 THEN stepLimit ELSE -stepLimit) ELSE d

(* dx and dy of the Newton step at a point with field f, before the limit *)
RawStep(jacobian, f) ==
  << -Div(Mul(jacobian[2][2], f[1]) - Mul(jacobian[1][2], f[2]), Units(det(jacobian))),
     -Div(-Mul(jacobian[2][1], f[1]) + Mul(jacobian[1][1], f[2]), Units(det(jacobian))) >>

(* the Newton step << dxLimited, dyLimited >> at a point with field f *)
NewtonStep(jacobian, f) ==
  << Limited(RawStep(jacobian, f)[1]), Limited(RawStep(jacobian, f)[2]) >>

stepX(searchRange, gridSize) == DivInt(searchRange.maxX - searchRange.minX, gridSize)
stepY(searchRange, gridSize) == DivInt(searchRange.maxY - searchRange.minY, gridSize)

(* minX + i * stepX, minY + j * stepY.  With gridSize 0 the step is a       *)
(* quotient by 0 (an infinity, or NaN for an empty extent) and the only      *)
(* indices are 0: the product 0 * step and with it the seed is NaN.          *)
seedAt(searchRange, gridSize, k, l) ==
  IF gridSize = 0 THEN << NaN, NaN >>
  ELSE << searchRange.minX + k * stepX(searchRange, gridSize),
          searchRange.minY + l * stepY(searchRange, gridSize) >>

(* new Set<string>() *)
seenPointsKept == seenPoints
seenPointsNew == {}

(* Inputs. *)
MaxGridSize == 2
GridSizes == {1, MaxGridSize}
FPSystems == {"saddle", "lotkaVolterra"}
FPParameters(systemType) ==
  IF systemType = "lotkaVolterra"
  THEN {NoParameters, [lotkaVolterra |-> defaultLotkaVolterra],
        [lotkaVolterra |-> [alpha |-> Scale, beta |-> 3 * (Scale \div 10),
                            delta |-> 3 * (Scale \div 10), gamma |-> Scale \div 2]]}
  ELSE {NoParameters}
Range(minX, maxX, minY, maxY) ==
  [minX |-> minX * Scale, maxX |-> maxX * Scale, minY |-> minY * Scale, maxY |-> maxY * Scale]
SearchRanges ==
  {Range(-1, 1, -1, 1), Range(1, 3, 1, 3), Range(0, 2, 0, 4), Range(4, 6, 4, 6),
   Range(0, 1, 0, 28)}

CallFindFixedPoints ==
  /\ Idle
  /\ \E systemType \in FPSystems, searchRange \in SearchRanges, gridSize \in GridSizes :
       \E parameters \in FPParameters(systemType) :
         args' = [systemType |-> systemType, parameters |-> parameters,
                  searchRange |-> searchRange, gridSize |-> gridSize]
  /\ remembered' = IF remembered # << >> /\ remembered[1].args # args'
                   THEN << [remembered[1] EXCEPT !.others = TRUE] >>
                   ELSE remembered
  /\ fn' = "findFixedPoints"
  /\ pc' = "origin"
  /\ fixedPoints' = << >>
  /\ seenPoints' = seenPointsNew
  /\ i' = 0 /\ j' = 0 /\ iter' = 0
  /\ x' = 0 /\ y' = 0
  /\ result' = << >>
  /\ UNCHANGED << t, step, steps, P, sir, trajectory, cacheVars, queryVars, uiVars >>

(* the origin, whatever the rectangle *)
CheckOrigin ==
  /\ pc = "origin" /\ fn = "findFixedPoints"
  /\ \E found \in {magnitude(vectorField(args.systemType, 0, 0, args.parameters)) < tolerance
                       /\ ~Has2(seenPoints, << 0, 0 >>)} :
       IF found
       THEN /\ seenPoints' = seenPoints \cup {<< 0, 0 >>}
            /\ \E point \in {FixedPointAt(args.systemType, 0, 0, args.parameters)} :
                 fixedPoints' = Append(fixedPoints, point)
       ELSE UNCHANGED << fixedPoints, seenPoints >>
  /\ pc' = "known"
  /\ UNCHANGED << fn, args, result, rkVars, i, j, iter, remembered, cacheVars, queryVars, uiVars >>

(* for (let n = -3; n <= 3; n++): the list and the set after the pendulum  *)
(* candidates (n pi, 0) from n on, each tested against minX and maxX        *)
RECURSIVE pendulumCandidates(_, _, _, _, _)
pendulumCandidates(fps, seen, n, searchRange, parameters) ==
  IF n > 3 THEN << fps, seen >>
  ELSE IF n * MathPI >= searchRange.minX /\ n * MathPI <= searchRange.maxX
  THEN Only({ pendulumCandidates(added[1], added[2], n + 1, searchRange, parameters)
              : added \in {addFixedPoint(fps, seen, "pendulum", n * MathPI, 0, parameters)} })
  ELSE pendulumCandidates(fps, seen, n + 1, searchRange, parameters)

(* the interior point of Lotka-Volterra, when parameters.lotkaVolterra is   *)
(* given, delta and beta exceed 1e-6 and the point lies in the rectangle     *)
CheckKnownCandidates ==
  /\ pc = "known" /\ fn = "findFixedPoints"
  /\ IF /\ args.systemType = "lotkaVolterra" /\ Has(args.parameters, "lotkaVolterra")
        /\ args.parameters.lotkaVolterra.delta > 1
        /\ args.parameters.lotkaVolterra.beta > 1
        /\ InRange(args.searchRange,
                   Div(args.parameters.lotkaVolterra.gamma, args.parameters.lotkaVolterra.delta),
                   Div(args.parameters.lotkaVolterra.alpha, args.parameters.lotkaVolterra.beta))
     THEN \E added \in {addFixedPoint(fixedPoints, seenPoints, args.systemType,
                          Div(args.parameters.lotkaVolterra.gamma,
                              args.parameters.lotkaVolterra.delta),
                          Div(args.parameters.lotkaVolterra.alpha,
                              args.parameters.lotkaVolterra.beta),
                          args.parameters)} :
            fixedPoints' = added[1] /\ seenPoints' = added[2]
     ELSE IF args.systemType = "pendulum"
     THEN \E added \in {pendulumCandidates(fixedPoints, seenPoints, -3, args.searchRange,
                                            args.parameters)} :
            fixedPoints' = added[1] /\ seenPoints' = added[2]
     ELSE UNCHANGED << fixedPoints, seenPoints >>
  /\ pc' = "grid"
  /\ i' = 0 /\ j' = 0
  /\ UNCHANGED << fn, args, result, rkVars, iter, remembered, cacheVars, queryVars, uiVars >>

(* the loop indices after the body of the inner loop *)
NextSeedAgain == i' = i /\ j' = j
NextSeed ==
  IF j < args.gridSize THEN i' = i /\ j' = j + 1 ELSE i' = i + 1 /\ j' = 0

(* a lattice point: skipped when its key is known, else the start of a      *)
(* Newton refinement (the key 'NaN,NaN' of a NaN seed is known to no set     *)
(* built before the loop)                                                    *)
StartSeed ==
  /\ pc = "grid" /\ fn = "findFixedPoints"
  /\ i <= args.gridSize
  /\ \E seed \in {seedAt(args.searchRange, args.gridSize, i, j)} :
       IF seed[1] # NaN /\ Has2(seenPoints, Key(seed[1], seed[2]))
       THEN NextSeed /\ UNCHANGED << pc, x, y, iter >>
       ELSE /\ pc' = "newton"
            /\ x' = seed[1] /\ y' = seed[2]
            /\ iter' = 0
            /\ UNCHANGED << i, j >>
  /\ UNCHANGED << fn, args, result, t, step, steps, P, sir, trajectory,
                  fixedPoints, seenPoints, remembered, cacheVars, queryVars, uiVars >>

(* one pass of the Newton loop: the test of the counter, the test of the    *)
(* magnitude, the singularity test, the limited step and the bounds test     *)
NewtonIteration ==
  /\ pc = "newton" /\ fn = "findFixedPoints"
  /\ x # NaN
  /\ \E f \in {vectorField(args.systemType, x, y, args.parameters)},
        jacobian \in {computeJacobian(args.systemType, x, y, args.parameters)} :
       IF iter >= maxIterations
       THEN /\ pc' = "grid" /\ NextSeed
            /\ UNCHANGED << x, y, iter, fixedPoints, seenPoints >>
       ELSE IF magnitude(f) < tolerance
       THEN /\ \E added \in {addFixedPoint(fixedPoints, seenPoints, args.systemType,
                                            x, y, args.parameters)} :
                 fixedPoints' = added[1] /\ seenPoints' = added[2]
            /\ pc' = "grid" /\ NextSeed
            /\ UNCHANGED << x, y, iter >>
       ELSE IF Singular(det(jacobian))
       THEN /\ pc' = "grid" /\ NextSeed
            /\ UNCHANGED << x, y, iter, fixedPoints, seenPoints >>
       ELSE \E moved \in {<< x + NewtonStep(jacobian, f)[1], y + NewtonStep(jacobian, f)[2] >>} :
              /\ x' = moved[1]
              /\ y' = moved[2]
              /\ IF OutOfBounds(args.searchRange, moved[1], moved[2])
                 THEN pc' = "grid" /\ NextSeed /\ iter' = iter
                 ELSE pc' = pc /\ iter' = iter + 1 /\ UNCHANGED << i, j >>
              /\ UNCHANGED << fixedPoints, seenPoints >>
  /\ UNCHANGED << fn, args, result, t, step, steps, P, sir, trajectory,
                  remembered, cacheVars, queryVars, uiVars >>

(* one pass of the Newton loop at a NaN iterate: the field, the Jacobian,   *)
(* the determinant and the step are NaN, every comparison with them is       *)
(* false (no convergence, no singularity, no limit, no bounds exit), and     *)
(* the iterate stays NaN until the counter ends the loop                     *)
NewtonIterationNaN ==
  /\ pc = "newton" /\ fn = "findFixedPoints"
  /\ x = NaN
  /\ IF iter >= maxIterations
     THEN pc' = "grid" /\ NextSeed /\ iter' = iter
     ELSE pc' = pc /\ iter' = iter + 1 /\ UNCHANGED << i, j >>
  /\ UNCHANGED << x, y, fixedPoints, seenPoints >>
  /\ UNCHANGED << fn, args, result, t, step, steps, P, sir, trajectory,
                  remembered, cacheVars, queryVars, uiVars >>

(* return fixedPoints; the call and its result may be remembered for a      *)
(* later comparison, once                                                    *)
ReturnFindFixedPoints ==
  /\ pc = "grid" /\ fn = "findFixedPoints"
  /\ i > args.gridSize
  /\ result' = fixedPoints
  /\ pc' = "done"
  /\ \/ remembered' = remembered
     \/ /\ remembered = << >>
        /\ remembered' = << [args |-> args, result |-> fixedPoints, others |-> FALSE] >>
  /\ UNCHANGED << fn, args, rkVars, fixedPoints, seenPoints, i, j, iter, cacheVars, queryVars, uiVars >>

(* A second set of calls, each described whole: the pendulum over           *)
(* rectangles around multiples of pi, Lotka-Volterra with the seed (1, 27), *)
(* and Lotka-Volterra over [-10, 10]^2 with 21 x 21 seeds.  What an earlier  *)
(* call left in `remembered` is dropped, and so are the locals of an        *)
(* earlier call of an integrator.                                            *)
LocatorCalls ==
  {[systemType |-> "pendulum", parameters |-> NoParameters, searchRange |-> r, gridSize |-> g]
     : r \in {Range(-4, 4, -1, 1), Range(1, 4, 1, 3), Range(12, 13, -1, 1)},
       g \in GridSizes}
    \cup {[systemType |-> "lotkaVolterra", parameters |-> NoParameters,
           searchRange |-> Range(0, 1, 0, 27), gridSize |-> 1]}
    \cup {[systemType |-> "lotkaVolterra", parameters |-> p,
           searchRange |-> Range(-10, 10, -10, 10), gridSize |-> 20]
            : p \in {NoParameters, [lotkaVolterra |-> defaultLotkaVolterra]}}

CallFindFixedPointsIn(calls) ==
  /\ Idle
  /\ \E call \in calls : args' = call
  /\ remembered' = << >>
  /\ fn' = "findFixedPoints"
  /\ pc' = "origin"
  /\ fixedPoints' = << >>
  /\ seenPoints' = seenPointsNew
  /\ i' = 0 /\ j' = 0 /\ iter' = 0
  /\ x' = 0 /\ y' = 0
  /\ result' = << >>
  /\ t' = << 0, 0 >> /\ step' = << 0, 0 >> /\ steps' = 0
  /\ P' = 0 /\ sir' = << 0, 0, 0 >> /\ trajectory' = << >>
  /\ UNCHANGED << cacheVars, queryVars, uiVars >>

CallFindFixedPointsAt == CallFindFixedPointsIn(LocatorCalls)

NextLocator ==
  \/ CallFindFixedPointsAt \/ CheckOrigin \/ CheckKnownCandidates
  \/ StartSeed \/ NewtonIteration \/ ReturnFindFixedPoints

SpecLocator == Init /\ [][NextLocator]_vars

----------------------------------------------------------------------------
(* solveODE over a whole period of the center: 'center' from (1, 0) with    *)
(* dt = 0.01 up to pi and 2 pi.  The elapsed time of these calls is kept in  *)
(* units of 1e-6, where the sums n * 0.01 are exact; the double sums differ  *)
(* from them by less than 1e-12 for n < 1000, and the guard t < time is      *)
(* decided at distances above 1e-3 (6.28 and 6.29 against 6.283185...).      *)
OrbitTimes == {MathPI, 2 * MathPI}
OrbitStep == Scale \div 100

CallSolveODEOrbit ==
  /\ Idle
  /\ \E time \in OrbitTimes :
       args' = [systemType |-> "center", initialPoint |-> << Scale, 0 >>,
                time |-> time, dt |-> OrbitStep, parameters |-> NoParameters]
  /\ trajectory' = << << Scale, 0 >> >>
  /\ x' = Scale /\ y' = 0
  /\ fn' = "solveODE"
  /\ pc' = "loop"
  /\ t' = 0
  /\ step' = << 0, 0 >>
  /\ steps' = 0
  /\ P' = 0
  /\ sir' = << 0, 0, 0 >>
  /\ result' = << >>
  /\ UNCHANGED << fpVars, cacheVars, queryVars, uiVars >>

StepSolveODEOrbit ==
  /\ pc = "loop" /\ fn = "solveODE"
  /\ t < args.time
  /\ \E next \in {solveODEStep(args.systemType, x, y, args.dt, args.parameters)} :
       /\ x' = next[1]
       /\ y' = next[2]
       /\ trajectory' = Append(trajectory, next)
  /\ t' = t + args.dt
  /\ steps' = steps + 1
  /\ UNCHANGED << pc, fn, args, result, step, P, sir >>
  /\ UNCHANGED << fpVars, cacheVars, queryVars, uiVars >>

ReturnSolveODEOrbit ==
  /\ pc = "loop" /\ fn = "solveODE"
  /\ ~(t < args.time)
  /\ result' = trajectory
  /\ pc' = "done"
  /\ UNCHANGED << fn, args, rkVars >>
  /\ UNCHANGED << fpVars, cacheVars, queryVars, uiVars >>

NextOrbit == CallSolveODEOrbit \/ StepSolveODEOrbit \/ ReturnSolveODEOrbit

SpecOrbit == Init /\ [][NextOrbit]_vars

----------------------------------------------------------------------------
(* Termination.  The calls run to completion one pass after another (the    *)
(* code is sequential and nothing else runs in between), which is weak       *)
(* fairness of the next step.  The searches include grid size 0 and a        *)
(* rectangle that is a single point.                                         *)
TerminationCalls ==
  {[systemType |-> systemType, parameters |-> NoParameters, searchRange |-> r, gridSize |-> g]
     : systemType \in {"saddle", "lotkaVolterra"},
       r \in {Range(-1, 1, -1, 1), Range(1, 1, 1, 1)},
       g \in {0, MaxGridSize}}

CallFindFixedPointsOn == CallFindFixedPointsIn(TerminationCalls)

(* the time 0 and later times, and steps that do and do not divide them *)
TerminationTimes == {0, 3 * (Scale \div 10), Scale \div 2}
TerminationSteps == {Scale \div 10, Scale \div 4}

CallSolveODEOn == CallSolveODEIn(TerminationTimes, TerminationSteps)
CallSolveTrajectoryOn == CallSolveTrajectoryIn(TerminationTimes, TerminationSteps)

NextTerminates ==
  \/ CallSolveODEOn \/ StepSolveODE \/ ReturnSolveODE
  \/ CallSolveTrajectoryOn \/ StepSolveTrajectory \/ ReturnSolveTrajectory
  \/ CallFindFixedPointsOn \/ CheckOrigin \/ CheckKnownCandidates
  \/ StartSeed \/ NewtonIteration \/ NewtonIterationNaN \/ ReturnFindFixedPoints

SpecTerminates == Init /\ [][NextTerminates]_vars /\ WF_vars(NextTerminates)

NextFP ==
  \/ CallFindFixedPoints \/ CheckOrigin \/ CheckKnownCandidates
  \/ StartSeed \/ NewtonIteration \/ ReturnFindFixedPoints

SpecFP == Init /\ [][NextFP]_vars

----------------------------------------------------------------------------
(* Bifurcation data of the SIR model: sirMaxAndFinal, and                   *)
(* getSIRThresholdData with the module-level sirThresholdCache, which is    *)
(* empty (null) or holds the one object a call has stored.                  *)

(* the loop of sirMaxAndFinal from the elapsed time on; c = << S, I, R >>   *)
RECURSIVE sirMaxAndFinalLoop(_, _, _, _, _, _, _)
sirMaxAndFinalLoop(c, maxI, time, beta, gamma, tMax, dt) ==
  IF ~LoopGuard(time, tMax) THEN [maxI |-> maxI, finalR |-> c[3]]
  ELSE Only({ Only({
         sirMaxAndFinalLoop(n, Max(maxI, n[2]), DAdd(time, h), beta, gamma, tMax, dt)
         : n \in {sirStep(c, beta, gamma, ToFixed(h))} })
         : h \in {ClipStep(dt, DSub(tMax, time))} })

sirMaxAndFinal(beta, gamma, S0, I0, R0, tMax, dt) ==
  sirMaxAndFinalLoop(<< Max(0, S0), Max(0, I0), Max(0, R0) >>, Max(0, I0), << 0, 0 >>,
                     beta, gamma, ToDouble(tMax), ToDouble(dt))

(* the body of the loop over j in getSIRThresholdData, for the arguments a  *)
R0val(a, jj) == a.r0Min + Mul(DivInt(jj * Scale, a.numR0), a.r0Max - a.r0Min)

ThresholdRun(a, jj) ==
  sirMaxAndFinal(Div(Mul(R0val(a, jj), a.gamma), a.N), a.gamma,
                 a.N - Scale, Scale, 0, a.tMax, Scale \div 20)

(* N === 100 && gamma === 0.1 *)
CacheKey(a) == a.N = 100 * Scale /\ a.gamma = Scale \div 10

CacheHit(cache, a) == cache # << >> /\ CacheKey(a)

MaxNumR0 == 2
PointCounts == {1, MaxNumR0}
Populations == {100 * Scale, 50 * Scale}
RecoveryRates == {Scale \div 10, Scale \div 5}
R0Minima == {Scale \div 5, Scale}
Horizons == {Scale \div 10, 3 * (Scale \div 20)}

(* entry of getSIRThresholdData: the cached object is returned at once, or  *)
(* the three arrays start empty                                             *)
CallGetSIRThresholdData ==
  /\ Idle
  /\ \E N \in Populations, gamma \in RecoveryRates, r0Min \in R0Minima,
        numR0 \in PointCounts, tMax \in Horizons :
       args' = [N |-> N, gamma |-> gamma, r0Min |-> r0Min, r0Max |-> 4 * Scale,
                numR0 |-> numR0, tMax |-> tMax]
  /\ fn' = "getSIRThresholdData"
  /\ IF CacheHit(sirThresholdCache, args')
     THEN /\ result' = sirThresholdCache[1]
          /\ pc' = "done"
     ELSE /\ result' = << >>
          /\ pc' = "sweep"
  /\ r0' = << >> /\ peakIN' = << >> /\ finalRN' = << >>
  /\ j' = 0
  /\ UNCHANGED << rkVars, fixedPoints, seenPoints, i, iter, remembered, sirThresholdCache,
                  queryVars, uiVars >>

(* one iteration of for (let j = 0; j <= numR0; j++) *)
IntegrateR0 ==
  /\ pc = "sweep" /\ fn = "getSIRThresholdData"
  /\ j <= args.numR0
  /\ \E run \in {ThresholdRun(args, j)} :
       /\ r0' = Append(r0, R0val(args, j))
       /\ peakIN' = Append(peakIN, Div(run.maxI, args.N))
       /\ finalRN' = Append(finalRN, Div(run.finalR, args.N))
  /\ j' = j + 1
  /\ UNCHANGED << pc, fn, args, result, rkVars, fixedPoints, seenPoints, i, iter,
                  remembered, sirThresholdCache, queryVars, uiVars >>

(* after the loop: the arrays are stored for N = 100, gamma = 0.1, and      *)
(* returned                                                                 *)
ReturnGetSIRThresholdData ==
  /\ pc = "sweep" /\ fn = "getSIRThresholdData"
  /\ j > args.numR0
  /\ sirThresholdCache' =
       IF CacheKey(args) THEN << [r0 |-> r0, peakIN |-> peakIN, finalRN |-> finalRN] >>
       ELSE sirThresholdCache
  /\ result' = [r0 |-> r0, peakIN |-> peakIN, finalRN |-> finalRN]
  /\ pc' = "done"
  /\ UNCHANGED << fn, args, rkVars, fpVars, r0, peakIN, finalRN, queryVars, uiVars >>

NextCache ==
  \/ CallGetSIRThresholdData \/ IntegrateR0 \/ ReturnGetSIRThresholdData

SpecCache == Init /\ [][NextCache]_vars

----------------------------------------------------------------------------
(* State-at-time queries.  Each is a pure function of its arguments; a call *)
(* runs to its return in one step.                                          *)

(* The integrators behind the queries step by 0.01 or 0.02, which as        *)
(* doubles are not whole multiples of 2^-57.  Scaling by a power of two     *)
(* commutes with every rounding of a double, so these loops keep their      *)
(* times multiplied by Fine: sums, differences and comparisons come out as  *)
(* for the unscaled times.                                                  *)
Fine == 2 ^ 3
ToDoubleFine(v) == ToDouble(Fine * v)
ToFixedFine(d) == DivInt(ToFixed(d), Fine)

(* the loop of solveODE from the elapsed time on, counting its iterations   *)
(* and the four evaluations of the field in each                            *)
RECURSIVE solveODELoop(_, _, _, _, _, _, _)
solveODELoop(systemType, p, elapsed, time, dt, parameters, n) ==
  IF ~LoopGuard(elapsed, time) THEN [value |-> p, steps |-> n, evaluations |-> 4 * n]
  ELSE solveODELoop(systemType,
                    solveODEStep(systemType, p[1], p[2], ToFixedFine(dt), parameters),
                    DAdd(elapsed, dt), time, dt, parameters, n + 1)

(* solveODE(systemType, initialPoint, time, 0.01, parameters), and its last *)
(* sample                                                                   *)
evolutionOperator(systemType, initialPoint, time, parameters) ==
  solveODELoop(systemType, initialPoint, << 0, 0 >>, ToDoubleFine(time),
               ToDoubleFine(Scale \div 100), parameters, 0)

RECURSIVE solveTrajectoryLoop(_, _, _, _, _, _, _)
solveTrajectoryLoop(model, params, p, elapsed, tMax, dt, n) ==
  IF ~LoopGuard(elapsed, tMax) THEN [value |-> p, steps |-> n, evaluations |-> 4 * n]
  ELSE Only({ solveTrajectoryLoop(model, params,
                                  solveTrajectoryStep(model, params, p[1], p[2], ToFixedFine(h)),
                                  DAdd(elapsed, h), tMax, dt, n + 1)
              : h \in {ClipStep(dt, DSub(tMax, elapsed))} })

stateAtTime(model, params, x0, y0, time, dt) ==
  IF time <= 0 THEN [value |-> << x0, y0 >>, steps |-> 0, evaluations |-> 0]
  ELSE solveTrajectoryLoop(model, params, << x0, y0 >>, << 0, 0 >>, ToDoubleFine(time),
                           ToDoubleFine(dt), 0)

(* What a query returns here: its value, with the number of RK4 steps and   *)
(* of evaluations of a right-hand side made for it, and the branch taken.   *)
Computed(value, via) ==
  [value |-> value, steps |-> 0, evaluations |-> 0, branch |-> via]

Integrated(run, via) ==
  [value |-> run.value, steps |-> run.steps, evaluations |-> run.evaluations,
   branch |-> via]

(* e^(at) (x0 cos(bt) - y0 sin(bt)), e^(at) (x0 sin(bt) + y0 cos(bt)) *)
rotation(a, b, x0, y0, time) ==
  << Mul(MathExp(Mul(a, time)),
         Mul(x0, MathCos(Mul(b, time))) - Mul(y0, MathSin(Mul(b, time)))),
     Mul(MathExp(Mul(a, time)),
         Mul(x0, MathSin(Mul(b, time))) + Mul(y0, MathCos(Mul(b, time)))) >>

analyticalSolution(systemType, initialPoint, time, parameters) ==
  CASE systemType = "center" ->
         Computed(<< Mul(initialPoint[1], MathCos(time)) - Mul(initialPoint[2], MathSin(time)),
                     Mul(initialPoint[1], MathSin(time)) + Mul(initialPoint[2], MathCos(time)) >>,
                  "closedForm")
    [] systemType = "spiral" ->
         Computed(rotation(Param(parameters, "spiral", "a", -Scale),
                           Param(parameters, "spiral", "b", -Scale),
                           initialPoint[1], initialPoint[2], time), "closedForm")
    [] systemType = "saddle" ->
         Computed(<< Mul(initialPoint[1], MathExp(time)),
                     Mul(initialPoint[2], MathExp(-time)) >>, "closedForm")
    [] systemType = "focus" ->
         Computed(rotation(Param(parameters, "focus", "a", Scale),
                           Param(parameters, "focus", "b", Scale),
                           initialPoint[1], initialPoint[2], time), "closedForm")
    [] systemType \in {"vanDerPol", "lotkaVolterra", "duffing", "pendulum", "node"} ->
         Integrated(evolutionOperator(systemType, initialPoint, time, parameters),
                    "evolutionOperator")
    [] OTHER -> Computed(initialPoint, "default")

(* ---- population models (part_005) ---- *)
exponentialSolution(P0, r, time) == Mul(P0, MathExp(Mul(r, time)))

exponentialHarvestingSolution(P0, r, H, time) ==
  IF r = 0 THEN MathMax(0, P0 - Mul(H, time))
  ELSE MathMax(0, Mul(P0 - Div(H, r), MathExp(Mul(r, time))) + Div(H, r))

logisticSolutionUnguarded(P0, r, K, time) ==
  XDiv(K, XAdd(Scale, XMul(XDiv(K - P0, P0), MathExp(-Mul(r, time)))))

(* Math.abs(P0 - K) < 1e-10: less than a ten-thousandth of the unit, that   *)
(* is, less than the one unit it rounds up to                               *)
logisticSolution(P0, r, K, time) ==
  IF P0 <= 0 THEN 0
  ELSE IF Abs(P0 - K) < CeilDiv(1, 10 * Kilo) THEN K
  ELSE XDiv(K, XAdd(Scale, XMul(XDiv(K - P0, P0), MathExp(-Mul(r, time)))))

(* harvestingSolution, alleeSolution and sirSolution from the elapsed time  *)
(* on: the loops differ in the right-hand side only; c holds r, K, H, A or  *)
(* beta, gamma, and p is the population or << S, I, R >>.                   *)
RECURSIVE populationLoop(_, _, _, _, _, _, _)
populationLoop(model, p, elapsed, time, dt, c, n) ==
  IF ~LoopGuard(elapsed, time) THEN [value |-> p, steps |-> n, evaluations |-> 4 * n]
  ELSE Only({ populationLoop(model,
                             CASE model = "harvesting" ->
                                    harvestingStep(p, c.r, c.K, c.H, ToFixedFine(h))
                               [] model = "allee" ->
                                    alleeStep(p, c.r, c.K, c.A, ToFixedFine(h))
                               [] OTHER -> sirStep(p, c.beta, c.gamma, ToFixedFine(h)),
                             DAdd(elapsed, h), time, dt, c, n + 1)
              : h \in {ClipStep(dt, DSub(time, elapsed))} })

(* params.K and its like, with the default of the destructuring *)
Default(params, key, dflt) == IF key \in DOMAIN params THEN params[key] ELSE dflt

populationAtTime(model, params, time) ==
  Only({
    CASE model = "exponential" ->
           Computed(exponentialSolution(c.P0, c.r, time), "closedForm")
      [] model = "exponentialHarvesting" ->
           Computed(exponentialHarvestingSolution(c.P0, c.r, c.H, time), "closedForm")
      [] model \in {"harvesting", "allee"} ->
           Integrated(populationLoop(model, MathMax(0, c.P0), << 0, 0 >>, ToDoubleFine(time),
                                     ToDoubleFine(Scale \div 100), c, 0), model)
      [] model \in {"si", "sis", "sir"} -> Computed(0, "epidemic")
      [] OTHER -> Computed(logisticSolution(c.P0, c.r, c.K, time), "closedForm")
    : c \in {[r |-> params.r, P0 |-> params.P0, K |-> Default(params, "K", Scale),
              H |-> Default(params, "H", 0), A |-> Default(params, "A", 0)]} })

(* ---- epidemic models (epidemicModels.ts) ---- *)
siSolution(time, beta, N, I0) ==
  IF N <= 0 \/ I0 <= 0 THEN [S |-> MathMax(0, N - I0), I |-> MathMax(0, I0)]
  ELSE IF I0 >= N THEN [S |-> 0, I |-> N]
  ELSE Only({ [S |-> XSub(N, I), I |-> I]
              : I \in {XDiv(N, XAdd(Scale, XMul(XDiv(N - I0, I0),
                                               MathExp(-Mul(Mul(beta, N), time)))))} })

sisSolution(time, beta, gamma, N, I0) ==
  Only({
    IF XLeq(K, 0) \/ I0 <= 0
    THEN Only({ [S |-> XSub(N, I), I |-> MathMax(0, I)]
                : I \in {XMul(I0, MathExp(XNeg(XMul(XSub(gamma, XMul(beta, N)), time))))} })
    ELSE IF I0 >= N THEN [S |-> 0, I |-> N]
    ELSE Only({ [S |-> XSub(N, I), I |-> I]
                : I \in {MathMin(N, XDiv(K, XAdd(Scale,
                            XMul(XDiv(XSub(K, I0), I0),
                                 MathExp(XNeg(XMul(XMul(beta, K), time)))))))} })
    : K \in {XSub(N, XDiv(gamma, beta))} })

(* the destructuring of params with gamma ?? 0.2, S0 ?? max(0, N - I0) and  *)
(* R0 ?? 0; compartment "R" of the SI and SIS models reads I, as the code   *)
epidemicCompartmentAtTime(model, params, time, compartment) ==
  Only({
    CASE model = "si" ->
           Computed(Only({ IF compartment = "S" THEN s.S ELSE s.I
                           : s \in {siSolution(time, c.beta, c.N, c.I0)} }), "closedForm")
      [] model = "sis" ->
           Computed(Only({ IF compartment = "S" THEN s.S ELSE s.I
                           : s \in {sisSolution(time, c.beta, c.gamma, c.N, c.I0)} }),
                    "closedForm")
      [] OTHER ->
           Only({ [run EXCEPT !.value = run.value[IF compartment = "S" THEN 1
                                                  ELSE IF compartment = "I" THEN 2 ELSE 3]]
                  : run \in {Integrated(
                      populationLoop("sir", << Max(0, c.S0), Max(0, c.I0), Max(0, c.R0) >>,
                                     << 0, 0 >>, ToDoubleFine(time),
                                     ToDoubleFine(Scale \div 100), c, 0), "sirSolution")} })
    : c \in {[beta |-> params.beta, N |-> params.N, I0 |-> params.I0,
              gamma |-> Default(params, "gamma", Scale \div 5),
              S0 |-> Default(params, "S0", Max(0, params.N - params.I0)),
              R0 |-> Default(params, "R0", 0)]} })

(* Inputs: times -0.02, -0.01, 0, 0.01, ..., MaxHundredths / 100 and 0.025. *)
MaxHundredths == 5
QueryTimes == {k * (Scale \div 100) : k \in -2 .. MaxHundredths} \cup {25 * Kilo}
QuerySystems == {"center", "lotkaVolterra", "node"}
AnalyticalSystems ==
  {"center", "spiral", "saddle", "focus", "vanDerPol", "lotkaVolterra", "duffing",
   "pendulum", "node"}
PopulationModels == {"exponential", "exponentialHarvesting", "logistic", "harvesting", "allee"}
PopulationParams ==
  {[r |-> r, P0 |-> P0, K |-> 100 * Scale, H |-> 20 * Scale, A |-> 20 * Scale]
     : r \in {0, Scale \div 2}, P0 \in {-Scale, 2 * Scale, 100 * Scale}}
    \cup {[r |-> Scale \div 2, P0 |-> -Scale, K |-> -Scale, H |-> 20 * Scale,
           A |-> 20 * Scale]}
    \cup {[r |-> Scale \div 2, P0 |-> P0] : P0 \in {0, Scale}}

EpidemicModels == {"si", "sis", "sir"}
EpidemicParams ==
  {[beta |-> beta, gamma |-> gamma, N |-> 10 * Scale, I0 |-> I0]
     : beta \in {0, Scale \div 20}, gamma \in {0, Scale \div 2},
       I0 \in {-Scale, Scale, 10 * Scale, 12 * Scale}}
    \cup {[beta |-> Scale \div 2, N |-> 10 * Scale, I0 |-> I0] : I0 \in {Scale, 12 * Scale}}

CallEvolutionOperator ==
  /\ pc = "idle"
  /\ \E systemType \in QuerySystems, initialPoint \in OdePoints, time \in QueryTimes :
       /\ args' = [systemType |-> systemType, initialPoint |-> initialPoint,
                   time |-> time, parameters |-> NoParameters]
       /\ \E run \in {evolutionOperator(systemType, initialPoint, time, NoParameters)} :
            /\ result' = run.value
            /\ steps' = run.steps
            /\ evaluations' = run.evaluations
  /\ fn' = "evolutionOperator"
  /\ branch' = "solveODE"
  /\ pc' = "done"
  /\ UNCHANGED << t, step, x, y, P, sir, trajectory, fpVars, cacheVars, uiVars >>

CallStateAtTime ==
  /\ pc = "idle"
  /\ \E model \in InteractingModels, p0 \in OdePoints, time \in QueryTimes,
        dt \in {Scale \div 50, Scale \div 20} :
       /\ args' = [model |-> model, params |-> NoParameters, x0 |-> p0[1], y0 |-> p0[2],
                   time |-> time, dt |-> dt]
       /\ \E run \in {stateAtTime(model, NoParameters, p0[1], p0[2], time, dt)} :
            /\ result' = run.value
            /\ steps' = run.steps
            /\ evaluations' = run.evaluations
  /\ fn' = "stateAtTime"
  /\ branch' = IF args'.time <= 0 THEN "initial" ELSE "solveTrajectory"
  /\ pc' = "done"
  /\ UNCHANGED << t, step, x, y, P, sir, trajectory, fpVars, cacheVars, uiVars >>

CallAnalyticalSolution ==
  /\ pc = "idle"
  /\ \E systemType \in AnalyticalSystems, initialPoint \in OdePoints, time \in QueryTimes :
       /\ args' = [systemType |-> systemType, initialPoint |-> initialPoint,
                   time |-> time, parameters |-> NoParameters]
       /\ \E run \in {analyticalSolution(systemType, initialPoint, time, NoParameters)} :
            /\ result' = run.value
            /\ steps' = run.steps
            /\ evaluations' = run.evaluations
            /\ branch' = run.branch
  /\ fn' = "analyticalSolution"
  /\ pc' = "done"
  /\ UNCHANGED << t, step, x, y, P, sir, trajectory, fpVars, cacheVars, uiVars >>

CallPopulationAtTime ==
  /\ pc = "idle"
  /\ \E model \in PopulationModels, params \in PopulationParams, time \in QueryTimes :
       /\ args' = [model |-> model, params |-> params, time |-> time]
       /\ \E run \in {populationAtTime(model, params, time)} :
            /\ result' = run.value
            /\ steps' = run.steps
            /\ evaluations' = run.evaluations
            /\ branch' = run.branch
  /\ fn' = "populationAtTime"
  /\ pc' = "done"
  /\ UNCHANGED << t, step, x, y, P, sir, trajectory, fpVars, cacheVars, uiVars >>

CallEpidemicCompartmentAtTime ==
  /\ pc = "idle"
  /\ \E model \in EpidemicModels, params \in EpidemicParams, time \in QueryTimes,
        compartment \in {"S", "I", "R"} :
       /\ args' = [model |-> model, params |-> params, time |-> time,
                   compartment |-> compartment]
       /\ \E run \in {epidemicCompartmentAtTime(model, params, time, compartment)} :
            /\ result' = run.value
            /\ steps' = run.steps
            /\ evaluations' = run.evaluations
            /\ branch' = run.branch
  /\ fn' = "epidemicCompartmentAtTime"
  /\ pc' = "done"
  /\ UNCHANGED << t, step, x, y, P, sir, trajectory, fpVars, cacheVars, uiVars >>

NextQuery ==
  \/ CallEvolutionOperator \/ CallStateAtTime
  \/ CallAnalyticalSolution \/ CallPopulationAtTime
  \/ CallEpidemicCompartmentAtTime

SpecQuery == Init /\ [][NextQuery]_vars

----------------------------------------------------------------------------
(* Claims about the RK4 loops (checked under SpecRK).                       *)
RKLoops == {"solveODE", "solveTrajectory", "harvestingSolution", "alleeSolution",
            "sirSolution"}

(* C1: in every RK4 loop, for a target time T > 0, each iteration steps by  *)
(* min(h, T - elapsed), elapsed time never exceeds T, and the loop ends     *)
(* with elapsed time exactly T.                                             *)
C1_StepClippedToTarget ==
  [][(fn' \in RKLoops /\ args'.time > 0) =>
       /\ ~DLess(ToDouble(args'.time), t')
       /\ (steps' = steps + 1 =>
             step' = DMin(ToDouble(args.dt), DSub(ToDouble(args.time), t)))
       /\ (pc' = "done" => t' = ToDouble(args'.time))]_vars

(* C2: solveODE and solveTrajectory take exactly ceil(T/h) steps and return *)
(* ceil(T/h) + 1 samples for T > 0, one sample for T <= 0; the first sample *)
(* is the initial state (at time 0); solveTrajectory's sample times         *)
(* strictly increase.                                                       *)
C2_StepCountAndSamples ==
  (pc = "done" /\ fn \in {"solveODE", "solveTrajectory"}) =>
    /\ IF args.time > 0
       THEN steps = CeilDiv(args.time, args.dt) /\ Len(result) = CeilDiv(args.time, args.dt) + 1
       ELSE steps = 0 /\ Len(result) = 1
    /\ (fn = "solveODE" => result[1] = args.initialPoint)
    /\ (fn = "solveTrajectory" =>
          /\ result[1] = << << 0, 0 >>, args.x0, args.y0 >>
          /\ \A k \in 1 .. Len(result) - 1 : DLess(result[k][1], result[k + 1][1]))

----------------------------------------------------------------------------
(* Claims about eigenvalues and classification (checked under SpecEig).     *)
Row(type, stability) == result.type = type /\ result.stability = stability

(* C5: classifyFixedPoint returns the first matching row of the table with  *)
(* eps = 1e-6.  Real pair: both |l| < eps -> center/semi-stable; else       *)
(* opposite signs -> saddle/unstable; else both < 0 -> stable-node/stable;  *)
(* else both > 0 -> unstable-node/unstable; else center/semi-stable.        *)
(* Complex pair with real part p: |p| < eps -> center/semi-stable; p < 0 -> *)
(* stable-spiral/stable; p > 0 -> unstable-spiral/unstable.  Matrices with  *)
(* (trace, det) = (-3, 2), (0, 1), (2, 5) classify as stable-node/stable,   *)
(* center/semi-stable, unstable-spiral/unstable.                            *)
C5_ClassificationTable ==
  (pc = "done" /\ fn \in {"classifyFixedPoint", "computeEigenvalues"}) =>
    LET e == result.eigenvalues
        bothSmall == Abs(e[1]) < ClassifyEps /\ Abs(e[2]) < ClassifyEps
        opposite == (e[1] < 0 /\ e[2] > 0) \/ (e[1] > 0 /\ e[2] < 0)
    IN  /\ (Len(e) = 2 /\ bothSmall) => Row("center", "semi-stable")
        /\ (Len(e) = 2 /\ ~bothSmall /\ opposite) => Row("saddle", "unstable")
        /\ (Len(e) = 2 /\ ~bothSmall /\ e[1] < 0 /\ e[2] < 0) => Row("stable-node", "stable")
        /\ (Len(e) = 2 /\ ~bothSmall /\ e[1] > 0 /\ e[2] > 0)
             => Row("unstable-node", "unstable")
        /\ (Len(e) = 2 /\ ~bothSmall /\ (e[1] = 0 \/ e[2] = 0))
             => Row("center", "semi-stable")
        /\ (Len(e) = 4 /\ Abs(e[1]) < ClassifyEps) => Row("center", "semi-stable")
        /\ (Len(e) = 4 /\ e[1] <= -ClassifyEps) => Row("stable-spiral", "stable")
        /\ (Len(e) = 4 /\ e[1] >= ClassifyEps) => Row("unstable-spiral", "unstable")
        /\ result.type \in {"center", "saddle", "stable-node", "unstable-node",
                            "stable-spiral", "unstable-spiral"}
        /\ (fn = "computeEigenvalues" =>
              LET tr == trace(args.jacobian)
                  dt == det(args.jacobian)
              IN  /\ (tr = -3 * Scale /\ dt = << 2 * Scale, 0 >>) => Row("stable-node", "stable")
                  /\ (tr = 0 /\ dt = << Scale, 0 >>) => Row("center", "semi-stable")
                  /\ (tr = 2 * Scale /\ dt = << 5 * Scale, 0 >>)
                       => Row("unstable-spiral", "unstable"))

(* a real pair of opposite signs, both below eps, classified as a center    *)
C5_Witness ==
  /\ pc = "done" /\ fn = "classifyFixedPoint"
  /\ Len(result.eigenvalues) = 2
  /\ result.eigenvalues[1] > 0 /\ result.eigenvalues[1] < ClassifyEps
  /\ result.eigenvalues[2] < 0 /\ result.eigenvalues[2] > -ClassifyEps
  /\ Row("center", "semi-stable")

(* the difference on one side of a square root s: 0 <= D - s*s <= 2*s, that *)
(* is, s is the root of D to one unit                                       *)
IsRootOf(s, D) == s >= 0 /\ Leq2(Mul2(s, s), D) /\ ~Leq2(Mul2(s + 1, s + 1), D)

(* C6: for discriminant D >= 0 (D = 0 included) computeEigenvalues returns  *)
(* the real pair [(t + sqrt D)/2, (t - sqrt D)/2], for D < 0 the array      *)
(* [t/2, sqrt(-D)/2, t/2, -sqrt(-D)/2]; the two eigenvalues sum to the      *)
(* trace and multiply to the determinant (their difference is the root of   *)
(* the discriminant, to the unit of the square root), and formatEigenvalue  *)
(* reads the array in this layout.                                          *)
C6_EigenvalueLayout ==
  (pc = "done" /\ fn = "computeEigenvalues") =>
    LET e == result.eigenvalues
        tr == trace(args.jacobian)
        D == discriminant(args.jacobian)
    IN  IF Leq2(<< 0, 0 >>, D)
        THEN /\ Len(e) = 2
             /\ e[1] + e[2] = 10 * tr
             /\ (e[1] - e[2]) % 10 = 0 /\ IsRootOf((e[1] - e[2]) \div 10, D)
             /\ result.display = << << toFixed3(e[1]) >>, << toFixed3(e[2]) >> >>
        ELSE /\ Len(e) = 4
             /\ e[1] = e[3] /\ e[2] = -e[4]
             /\ e[1] + e[3] = 10 * tr
             /\ e[2] % 5 = 0 /\ IsRootOf(e[2] \div 5, Neg2(D))
             /\ result.display[1][1] = toFixed3(5 * tr)
             /\ result.display[2][1] = toFixed3(5 * tr)
             /\ (e[2] >= EigScale \div Kilo =>
                   /\ result.display[1][3] = toFixed3(e[2])
                   /\ result.display[2][3] = toFixed3(-e[2]))

(* a Jacobian with discriminant exactly zero and a non-zero trace, and one  *)
(* with a negative discriminant                                             *)
C6_Witness ==
  /\ pc = "done" /\ fn = "computeEigenvalues"
  /\ discriminant(args.jacobian) = << 0, 0 >>
  /\ trace(args.jacobian) # 0
  /\ Len(result.eigenvalues) = 2
  /\ result.eigenvalues[1] = result.eigenvalues[2]

----------------------------------------------------------------------------
(* Claims about findFixedPoints (checked under SpecFP).                     *)
Finding == fn = "findFixedPoints"
Returned == pc = "done" /\ fn = "findFixedPoints"

(* ||f(px, py)|| < 1e-4, from the exact squares: fx^2 + fy^2 < 1e-8 *)
FieldBelow1e4(px, py) ==
  LET f == vectorField(args.systemType, px, py, args.parameters)
  IN  /\ Abs(f[1]) < Scale /\ Abs(f[2]) < Scale
      /\ Leq2(Add2(Mul2(f[1], f[1]), Mul2(f[2], f[2])), << 0, 9999 >>)

(* C3: every fixed point in the list, whichever path added it (origin       *)
(* check, known candidate, Newton refinement), has ||f(x, y)|| < 1e-4 at    *)
(* its recorded location.                                                    *)
C3_AcceptedBelowTolerance ==
  Finding =>
    /\ \A k \in 1 .. Len(fixedPoints) : FieldBelow1e4(fixedPoints[k].x, fixedPoints[k].y)
    /\ (pc = "done" => result = fixedPoints)

(* a returned point that is no exact zero of the field and that Newton      *)
(* refinement found: the known candidate lies outside the rectangle         *)
C3_Witness ==
  /\ Returned
  /\ args.systemType = "lotkaVolterra" /\ Has(args.parameters, "lotkaVolterra")
  /\ \E k \in 1 .. Len(result) :
       /\ vectorField(args.systemType, result[k].x, result[k].y, args.parameters) # << 0, 0 >>
       /\ ~InRange(args.searchRange,
                   Div(args.parameters.lotkaVolterra.gamma, args.parameters.lotkaVolterra.delta),
                   Div(args.parameters.lotkaVolterra.alpha, args.parameters.lotkaVolterra.beta))

(* C4: the list never holds two points whose coordinates round to the same *)
(* 3-decimal key, and of several accepted candidates with one key the first *)
(* encountered stays: within a call the list only grows at its end, and     *)
(* the key set is the set of keys of the list.                              *)
C4_FirstOfEachKeyKept ==
  [][(Finding' /\ pc' # "origin") =>
       /\ \A k, l \in 1 .. Len(fixedPoints') :
            Key(fixedPoints'[k].x, fixedPoints'[k].y) = Key(fixedPoints'[l].x, fixedPoints'[l].y)
              => k = l
       /\ Len(fixedPoints) <= Len(fixedPoints')
       /\ SubSeq(fixedPoints', 1, Len(fixedPoints)) = fixedPoints
       /\ seenPoints' = {Key(fixedPoints'[k].x, fixedPoints'[k].y) : k \in 1 .. Len(fixedPoints')}
       /\ (pc' = "done" => result' = fixedPoints')]_vars

(* a Newton iterate below the tolerance whose key an earlier, different     *)
(* point of the list already has                                            *)
C4_Witness ==
  /\ Finding /\ pc = "newton" /\ iter < maxIterations
  /\ magnitude(vectorField(args.systemType, x, y, args.parameters)) < tolerance
  /\ \E k \in 1 .. Len(fixedPoints) :
       /\ Key(fixedPoints[k].x, fixedPoints[k].y) = Key(x, y)
       /\ << fixedPoints[k].x, fixedPoints[k].y >> # << x, y >>

(* C7: the origin is tested for every rectangle and grid size: whenever     *)
(* ||f(0, 0)|| < 1e-4 the result has (0, 0) as its first element, also when *)
(* the rectangle does not contain the origin.                               *)
C7_OriginFirst ==
  (Returned /\ FieldBelow1e4(0, 0)) =>
    /\ Len(result) >= 1
    /\ result[1].x = 0 /\ result[1].y = 0

(* a call whose rectangle excludes the origin returns the origin first      *)
C7_Witness ==
  /\ Returned
  /\ ~InRange(args.searchRange, 0, 0)
  /\ Len(result) >= 2
  /\ result[1].x = 0 /\ result[1].y = 0

(* The zeros of the fields searched here: the origin, and for Lotka-Volterra *)
(* the interior point (gamma/delta, alpha/beta).                             *)
FieldZeros ==
  IF args.systemType = "lotkaVolterra"
  THEN {<< 0, 0 >>,
        << Div(Param(args.parameters, "lotkaVolterra", "gamma", Scale \div 2),
               Param(args.parameters, "lotkaVolterra", "delta", Scale \div 2)),
           Div(Param(args.parameters, "lotkaVolterra", "alpha", Scale),
               Param(args.parameters, "lotkaVolterra", "beta", Scale \div 2)) >>}
  ELSE {<< 0, 0 >>}

Within2(px, py) ==
  /\ args.searchRange.minX - 2 * Scale <= px /\ px <= args.searchRange.maxX + 2 * Scale
  /\ args.searchRange.minY - 2 * Scale <= py /\ py <= args.searchRange.maxY + 2 * Scale

C10_SameArgumentsSameList ==
  (Returned /\ remembered # << >> /\ remembered[1].args = args)
    => result = remembered[1].result

(* a repeated call, after a call with other arguments in between, that      *)
(* returned two points                                                      *)
C10_Witness ==
  /\ Returned
  /\ remembered # << >>
  /\ remembered[1].args = args
  /\ remembered[1].others
  /\ Len(result) = 2

----------------------------------------------------------------------------
(* Claim about getSIRThresholdData (checked under SpecCache).               *)

(* C9: the arrays getSIRThresholdData returns depend only on its arguments, *)
(* whatever calls preceded it: there are numR0 + 1 entries, entry k of r0   *)
(* is r0Min + (k / numR0) * (r0Max - r0Min), and entries k of peakIN and    *)
(* finalRN are the peak I / N and the final R / N of the run for that R0    *)
(* over the horizon tMax.                                                   *)
C9_ThresholdDataFromArgumentsOnly ==
  (pc = "done" /\ fn = "getSIRThresholdData") =>
    /\ Len(result.r0) = args.numR0 + 1
    /\ Len(result.peakIN) = args.numR0 + 1
    /\ Len(result.finalRN) = args.numR0 + 1
    /\ \A k \in 0 .. args.numR0 :
         /\ result.r0[k + 1] = R0val(args, k)
         /\ result.peakIN[k + 1] = Div(ThresholdRun(args, k).maxI, args.N)
         /\ result.finalRN[k + 1] = Div(ThresholdRun(args, k).finalR, args.N)


----------------------------------------------------------------------------
(* Claims about the state-at-time queries (checked under SpecQuery).        *)

(* C11: for every T <= 0, stateAtTime and evolutionOperator return exactly  *)
(* the initial state, and perform no RK4 step and no evaluation of the      *)
(* vector field.                                                            *)
C11_NoIntegrationAtOrBeforeZero ==
  (pc = "done" /\ fn \in {"stateAtTime", "evolutionOperator"} /\ args.time <= 0) =>
    /\ result = (IF fn = "stateAtTime" THEN << args.x0, args.y0 >> ELSE args.initialPoint)
    /\ steps = 0
    /\ evaluations = 0

(* C11 witness: evolutionOperator has returned the initial point for a     *)
(* negative time.                                                           *)
C11_Witness ==
  /\ pc = "done" /\ fn = "evolutionOperator" /\ args.time < 0
  /\ result = args.initialPoint /\ steps = 0

(* C12: for every T <= 0 (negative as well as zero) and every initial       *)
(* state, analyticalSolution (center, spiral, saddle, focus) and            *)
(* populationAtTime (exponential, exponentialHarvesting, logistic,          *)
(* harvesting, allee) return the initial state unmodified.                  *)
C12_InitialStateAtOrBeforeZero ==
  /\ (pc = "done" /\ fn = "analyticalSolution" /\ args.time <= 0
        /\ args.systemType \in {"center", "spiral", "saddle", "focus"})
       => result = args.initialPoint
  /\ (pc = "done" /\ fn = "populationAtTime" /\ args.time <= 0
        /\ args.model \in {"exponential", "exponentialHarvesting", "logistic",
                           "harvesting", "allee"})
       => result = args.params.P0

(* ---- C13 ---- *)
(* the system or model a state-at-time query was asked about, and whether   *)
(* the code has a closed form for it                                        *)
QueriedSystem ==
  CASE fn = "analyticalSolution" -> args.systemType
    [] OTHER -> args.model

HasClosedForm ==
  QueriedSystem \in {"center", "spiral", "focus", "saddle", "exponential",
                     "exponentialHarvesting", "logistic", "si", "sis"}

IsState(v) == IF fn = "analyticalSolution" THEN v \in Int \X Int ELSE v \in Int

C14_ComponentsNonNegative ==
  /\ (pc \in {"loop", "done"} /\ fn \in {"harvestingSolution", "alleeSolution"}) =>
       XLeq(0, P)
  /\ (pc \in {"loop", "done"} /\ fn = "sirSolution") =>
       \A k \in 1 .. 3 : XLeq(0, sir[k])

(* ---- C15 ---- *)
(* a run of harvestingSolution with r > 0, K > 0 and H > r K / 4, and the   *)
(* margin H - r K / 4 by which every slope is negative                      *)
ForcedExtinction ==
  /\ fn = "harvestingSolution"
  /\ args.r > 0 /\ args.K > 0
  /\ 4 * args.H > Mul(args.r, args.K)

ExtinctionMargin == args.H - DivInt(Mul(args.r, args.K), 4)

(* C15: for the harvesting model with r > 0, K > 0 and H > r K / 4, every   *)
(* integration step lowers the population by at least step * (H - r K / 4)  *)
(* or to exactly 0, a population that is 0 is 0 after the next step, and    *)
(* the value returned for a time T with T * (H - r K / 4) >= P0 is exactly  *)
(* 0.                                                                       *)
C15_ExtinctionIsAbsorbing ==
  /\ [][(pc = "loop" /\ pc' = "loop" /\ steps' = steps + 1 /\ ForcedExtinction) =>
          /\ P' = 0 \/ P' <= P - Mul(ToFixed(step'), ExtinctionMargin)
          /\ (P = 0) => (P' = 0)]_vars
  /\ []((pc = "done" /\ ForcedExtinction
          /\ Mul(args.time, ExtinctionMargin) >= Max(0, args.P0)) => result = 0)

C15_Witness ==
  /\ pc = "done" /\ ForcedExtinction
  /\ args.P0 = 2 * Scale /\ args.H = 20 * Scale /\ args.K = 100 * Scale
  /\ steps >= 3 /\ result = 0

(* ---- C16 ---- *)
(* a run of sirSolution from non-negative compartments with basic           *)
(* reproduction number beta N / gamma > 1, where N = S0 + I0 + R0           *)
TotalPopulation == args.S0 + args.I0 + args.R0

EpidemicRun ==
  /\ fn = "sirSolution" /\ pc \in {"loop", "done"}
  /\ args.S0 >= 0 /\ args.I0 >= 0 /\ args.R0 >= 0
  /\ Mul(args.beta, TotalPopulation) > args.gamma

(* the three roundings to the unit 1e-6 that one step of the model adds to  *)
(* S + I + R, which the doubles of the code do not have                     *)
RoundingAllowance == 4 * steps

(* C16: for the SIR model with beta N / gamma > 1 and N = S0 + I0 + R0,     *)
(* the state of sirSolution at the start and after every integration step   *)
(* satisfies |S + I + R - N| <= 1e-6 (one unit, plus the rounding of the    *)
(* fixed-point steps taken).                                                *)
C16_TotalConserved ==
  EpidemicRun => Abs(sir[1] + sir[2] + sir[3] - TotalPopulation) <= 1 + RoundingAllowance

(* ---- C17 ---- *)
SisCall ==
  /\ pc = "done" /\ fn = "epidemicCompartmentAtTime" /\ args.model = "sis"
  /\ "gamma" \in DOMAIN args.params

(* C17: whenever I0 >= N, sisSolution returns S = 0 and I = N, for every    *)
(* t, beta and gamma; and whenever K = N - gamma / beta <= 0 it returns     *)
(* I = I0 exp(-(gamma - beta N) t) and S = N - I.  The compartment asked    *)
(* for is the one compared.                                                 *)
C17_SaturationAndDecay ==
  /\ (SisCall /\ args.params.I0 >= args.params.N) =>
       result = (IF args.compartment = "S" THEN 0 ELSE args.params.N)
  /\ (SisCall /\ XLeq(XSub(args.params.N, XDiv(args.params.gamma, args.params.beta)), 0)) =>
       result = Only({ IF args.compartment = "S" THEN XSub(args.params.N, I) ELSE I
                       : I \in {XMul(args.params.I0,
                                     MathExp(XNeg(XMul(XSub(args.params.gamma,
                                                            XMul(args.params.beta,
                                                                 args.params.N)),
                                                       args.time))))} })

(* ---- C18 ---- *)
(* C18: every state a closed-form solution function returns               *)
(* (exponentialHarvestingSolution, logisticSolution, siSolution,            *)
(* sisSolution, reached through populationAtTime and                        *)
(* epidemicCompartmentAtTime) is a finite number, never NaN or infinite,    *)
(* for every input drawn, r = 0, P0 = K, beta = 0 and gamma = 0 included.   *)
C18_ClosedFormsFinite ==
  (/\ pc = "done" /\ fn \in {"populationAtTime", "epidemicCompartmentAtTime"}
   /\ branch = "closedForm") => ~NonFinite(result)

(* ---- C19 ---- *)
LogisticCall == pc = "done" /\ fn = "populationAtTime" /\ args.model = "logistic"

(* the capacity the call uses: params.K, or its default 1 *)
LogisticCapacity == Default(args.params, "K", Scale)

AtCapacity == Abs(args.params.P0 - LogisticCapacity) < CeilDiv(1, 10 * Kilo)

(* C19 as stated: populationAtTime('logistic', ...) returns exactly 0 for   *)
(* every t when P0 <= 0, and exactly K for every t when |P0 - K| < 1e-10.   *)
C19_ZeroAndCapacity ==
  /\ (LogisticCall /\ args.params.P0 <= 0) => result = 0
  /\ (LogisticCall /\ AtCapacity) => result = LogisticCapacity

(* C19, amended: populationAtTime('logistic', ...) returns exactly 0 for    *)
(* every t when P0 <= 0, and exactly K for every t when |P0 - K| < 1e-10    *)
(* and P0 > 0; the test of P0 <= 0 comes first.                             *)
C19_ZeroThenCapacity ==
  /\ (LogisticCall /\ args.params.P0 <= 0) => result = 0
  /\ (LogisticCall /\ AtCapacity /\ args.params.P0 > 0) => result = LogisticCapacity

C19_Witness ==
  /\ LogisticCall /\ AtCapacity
  /\ args.params.P0 = 100 * Scale /\ args.time > 0 /\ result = 100 * Scale

(* ---- C20 ---- *)
(* the Lotka-Volterra parameters a call uses, defaults included, and the    *)
(* interior point (gamma / delta, alpha / beta) they give                   *)
LotkaVolterraParam(key) ==
  Param(args.parameters, "lotkaVolterra", key, defaultLotkaVolterra[key])

InteriorPoint ==
  << Div(LotkaVolterraParam("gamma"), LotkaVolterraParam("delta")),
     Div(LotkaVolterraParam("alpha"), LotkaVolterraParam("beta")) >>

(* C20: a call of findFixedPoints for lotkaVolterra with delta > 1e-6 and   *)
(* beta > 1e-6 returns a list that holds the interior point                 *)
(* (gamma / delta, alpha / beta), to the three decimals of the key,         *)
(* whenever that point lies in the search rectangle, for every grid         *)
(* resolution, with the parameters passed or left to their defaults.        *)
C20_InteriorPointReturned ==
  (/\ Returned /\ args.systemType = "lotkaVolterra"
   /\ LotkaVolterraParam("delta") > 1 /\ LotkaVolterraParam("beta") > 1
   /\ InRange(args.searchRange, InteriorPoint[1], InteriorPoint[2])) =>
    \E k \in 1 .. Len(result) :
      Key(result[k].x, result[k].y) = Key(InteriorPoint[1], InteriorPoint[2])

----------------------------------------------------------------------------
(* Claims about findFixedPoints checked under SpecLocator.                  *)

(* the state in which the known-structure candidates have just been tested  *)
(* and no lattice seed has been looked at                                   *)
CandidatesTested == Finding /\ pc = "grid" /\ i = 0 /\ j = 0

Recorded(px, py) == \E k \in 1 .. Len(fixedPoints) : fixedPoints[k].x = px /\ fixedPoints[k].y = py

(* C21: for the pendulum, once the known-structure candidates are tested    *)
(* the list holds the point (n pi, 0), n a non-zero integer (up to 4 here), *)
(* exactly when that point lies inside the search rectangle, in x and in y; *)
(* the origin is tested whatever the rectangle and is left aside.           *)
C21_PendulumCandidatesInRectangle ==
  (CandidatesTested /\ args.systemType = "pendulum") =>
    \A n \in (-4 .. 4) \ {0} :
      InRange(args.searchRange, n * MathPI, 0) <=> Recorded(n * MathPI, 0)

(* the refinement of a seed is under way and its iterate is no fixed point *)
Refining ==
  /\ Finding /\ pc = "newton" /\ iter < maxIterations
  /\ magnitude(vectorField(args.systemType, x, y, args.parameters)) >= tolerance

(* |det J| < 1e-10 at the iterate *)
SingularAt(px, py) ==
  Singular(det(computeJacobian(args.systemType, px, py, args.parameters)))

(* C22: when the Jacobian at the iterate is singular (|det| < 1e-10), or    *)
(* the step takes the iterate more than 2 outside the rectangle, the         *)
(* refinement of that seed stops at once: the list and the set of keys are   *)
(* left as they were, no error is raised, and the search goes on with the    *)
(* next seed; a search returns only after the last seed.                     *)
C22_AbortedSeedAddsNothing ==
  [][ /\ (Refining /\ (SingularAt(x, y) \/ ~Within2(x', y')))
        => /\ fixedPoints' = fixedPoints /\ seenPoints' = seenPoints
           /\ pc' = "grid"
           /\ << i', j' >> = (IF j < args.gridSize THEN << i, j + 1 >> ELSE << i + 1, 0 >>)
      /\ (Finding /\ pc' = "done" /\ pc # "done")
        => (i = args.gridSize + 1 /\ j = 0 /\ result' = fixedPoints) ]_vars

(* the refinement of the seed (1, 0) of Lotka-Volterra has just stopped at   *)
(* a singular Jacobian, on the first pass, with the origin alone in the list *)
C22_Witness ==
  /\ Finding /\ pc = "grid" /\ args.systemType = "lotkaVolterra"
  /\ x = Scale /\ y = 0 /\ iter = 0 /\ i = 1 /\ j = 1
  /\ SingularAt(x, y)
  /\ magnitude(vectorField(args.systemType, x, y, args.parameters)) >= tolerance
  /\ Len(fixedPoints) = 1

(* d brought into [-0.5, 0.5], its sign kept *)
Clamped(d) ==
  IF d > Scale \div 2 THEN Scale \div 2 ELSE IF d < -(Scale \div 2) THEN -(Scale \div 2) ELSE d

(* the raw Newton step at the iterate *)
RawStepAt(px, py) ==
  RawStep(computeJacobian(args.systemType, px, py, args.parameters),
          vectorField(args.systemType, px, py, args.parameters))

(* C27: a Newton step changes each coordinate by the raw step brought into  *)
(* [-0.5, 0.5] with its sign kept, so by at most 0.5; and a fixed point      *)
(* recorded during the refinement of a lattice seed is the current iterate   *)
(* and lies within the search rectangle enlarged by 2 on every side.         *)
C27_StepsLimitedPointsNearRectangle ==
  [][ /\ (Refining /\ ~SingularAt(x, y))
        => /\ x' - x = Clamped(RawStepAt(x, y)[1])
           /\ y' - y = Clamped(RawStepAt(x, y)[2])
           /\ Abs(x' - x) <= Scale \div 2 /\ Abs(y' - y) <= Scale \div 2
      /\ (Finding /\ pc = "newton" /\ fixedPoints' # fixedPoints)
        => /\ Len(fixedPoints') = Len(fixedPoints) + 1
           /\ fixedPoints'[Len(fixedPoints')].x = x
           /\ fixedPoints'[Len(fixedPoints')].y = y
           /\ Within2(x, y) ]_vars

(* a point recorded after at least one step whose raw size exceeded 0.5 in   *)
(* the negative direction: the seed lay more than 0.5 from it                *)
C27_Witness ==
  /\ Finding /\ pc = "grid" /\ iter >= 2
  /\ Len(fixedPoints) >= 1
  /\ fixedPoints[Len(fixedPoints)].x = x /\ fixedPoints[Len(fixedPoints)].y = y
  /\ (x # 0 \/ y # 0)
  /\ args.searchRange.minX + (IF j = 0 THEN i - 1 ELSE i) * stepX(args.searchRange, args.gridSize) - x
       > Scale \div 2

(* C28: every iterate of a refinement, the seed and the result of each of   *)
(* the up to 50 Newton steps, is tested against the tolerance: when the      *)
(* refinement of a seed ends at an iterate with ||f|| < 1e-4, after any      *)
(* number of steps from 0 to 50, the key of that iterate is recorded.        *)
C28_EveryIterateTested ==
  [][ (/\ Finding /\ pc = "newton" /\ pc' = "grid"
       /\ magnitude(vectorField(args.systemType, x', y', args.parameters)) < tolerance)
        => Key(x', y') \in seenPoints' ]_vars

(* C24: with alpha = 1, beta = 0.5, delta = 0.5, gamma = 0.5, passed or      *)
(* taken by default, findFixedPoints('lotkaVolterra', ...) over [-10, 10]^2  *)
(* with grid size 20 returns exactly two points: the origin, a saddle, and   *)
(* then (1, 2), a center.                                                    *)
C24_LotkaVolterraOriginAndCenter ==
  (/\ Returned /\ args.systemType = "lotkaVolterra"
   /\ args.searchRange = Range(-10, 10, -10, 10) /\ args.gridSize = 20)
    => /\ Len(result) = 2
       /\ result[1].x = 0 /\ result[1].y = 0 /\ result[1].type = "saddle"
       /\ result[2].x = Scale /\ result[2].y = 2 * Scale /\ result[2].type = "center"

(* the search over [-10, 10]^2 has returned, here with the default           *)
(* parameters, so that (1, 2) was found by refinement of a lattice seed       *)
C24_Witness ==
  /\ Returned /\ args.systemType = "lotkaVolterra"
  /\ args.searchRange = Range(-10, 10, -10, 10) /\ args.gridSize = 20
  /\ args.parameters = NoParameters
  /\ i = 21 /\ j = 0
  /\ Len(result) = 2

----------------------------------------------------------------------------
(* Claims about solveODE checked under SpecOrbit. *)

(* the point p lies within 1e-3 of the point q *)
Within1e3(p, q) ==
  /\ Abs(p[1] - q[1]) <= Kilo /\ Abs(p[2] - q[2]) <= Kilo
  /\ (p[1] - q[1]) * (p[1] - q[1]) + (p[2] - q[2]) * (p[2] - q[2]) <= Kilo * Kilo

(* C26: for the center system from (1, 0), solveODE run to T = 2 pi with     *)
(* h = 0.01 returns a trajectory whose last state lies within 1e-3 of (1, 0). *)
C26_ClosedOrbitReturn ==
  (/\ pc = "done" /\ fn = "solveODE" /\ args.systemType = "center"
   /\ args.initialPoint = << Scale, 0 >> /\ args.time = 2 * MathPI /\ args.dt = OrbitStep)
    => Within1e3(result[Len(result)], << Scale, 0 >>)

----------------------------------------------------------------------------
(* Claims about termination checked under SpecTerminates. *)

(* a call is under way *)
Running == pc \notin {"idle", "done"}

----------------------------------------------------------------------------
(* DynamicalSystemVisualizer.  The component keeps systemType, parameters   *)
(* and fixedPoints in state.  A render whose systemType differs from the     *)
(* previous render's leaves the parameter-reset effect to run, and one whose *)
(* systemType or parameters differ leaves the fixed-point effect; the        *)
(* effects of a commit run in the order of their declaration, each with the  *)
(* values its render saw, and all of them before the next event is handled.  *)
(* A state setter called from an effect gives a further render, whose        *)
(* effects run after those still pending.                                    *)

(* getSystemParameters(systemType).length > 0 *)
hasParameterDefinitions(systemType) ==
  systemType \in {"vanDerPol", "lotkaVolterra", "duffing", "pendulum", "spiral", "focus"}

(* defaultParameters, for the systems selected here *)
defaultParameters ==
  [lotkaVolterra |-> defaultLotkaVolterra,
   spiral |-> [a |-> -Scale, b |-> -Scale],
   focus |-> [a |-> Scale, b |-> Scale]]

(* the object `newParams` of the reset effect: the entry of the system alone *)
newParams(systemType) ==
  [k \in {systemType} |-> defaultParameters[systemType]]

(* handleParameterChange(key, value) of ParameterControls: a copy of         *)
(* parameters whose entry for the system is its current entry (or the        *)
(* default one) with `key` set to `value`                                    *)
handleParameterChange(systemType, parameters, key, value) ==
  [k \in DOMAIN parameters \cup {systemType} |->
     IF k = systemType
     THEN [(IF Has(parameters, k) THEN parameters[k] ELSE defaultParameters[k])
             EXCEPT ![key] = value]
     ELSE parameters[k]]

(* the list after setFixedPoints(fps): fps, whatever the list was *)
setFixedPointsMerged(list, fps) == list \o fps
setFixedPoints(list, fps) == fps

(* const searchRange = {minX: -10, maxX: 10, minY: -10, maxY: 10}, and 20 *)
VisualizerCall(systemType, parameters) ==
  [systemType |-> systemType, parameters |-> parameters,
   searchRange |-> Range(-10, 10, -10, 10), gridSize |-> 20]

(* Inputs: the systems offered by the selector and the slider values of      *)
(* the parameter `a` of the spiral (min -2, max 0).                          *)
VisualizerSystems == {"center", "spiral"}
SliderValues == {-2 * Scale, 0}

(* no effect is pending and no call is under way *)
Quiescent == visualizer.effects = << >> /\ pc = "idle"

(* onSystemChange = setSystemType: the radio button of another system *)
SelectSystem ==
  /\ Quiescent
  /\ \E systemType \in VisualizerSystems \ {visualizer.systemType} :
       visualizer' = [visualizer EXCEPT
                        !.systemType = systemType,
                        !.effects = << ResetEffect(systemType),
                                       FindEffect(systemType, visualizer.parameters) >>]
  /\ UNCHANGED << pc, fn, args, result, rkVars, fpVars, cacheVars, queryVars, player >>

(* onParametersChange = setParameters, from a slider of ParameterControls    *)
(* (rendered only for a system with parameter definitions): the new object   *)
(* is a new dependency of the fixed-point effect whatever it holds            *)
ChangeParameters ==
  /\ Quiescent
  /\ hasParameterDefinitions(visualizer.systemType)
  /\ \E value \in SliderValues :
       \E changed \in {handleParameterChange(visualizer.systemType, visualizer.parameters,
                                              "a", value)} :
         visualizer' = [visualizer EXCEPT
                          !.parameters = changed,
                          !.effects = << FindEffect(visualizer.systemType, changed) >>]
  /\ UNCHANGED << pc, fn, args, result, rkVars, fpVars, cacheVars, queryVars, player >>

(* the parameter-reset effect: setParameters(newParams) or setParameters({}), *)
(* a new object either way, so that the render it causes leaves the           *)
(* fixed-point effect to run once more                                        *)
RunResetEffect ==
  /\ pc = "idle"
  /\ visualizer.effects # << >>
  /\ Head(visualizer.effects).effect = "reset"
  /\ \E reset \in {IF hasParameterDefinitions(Head(visualizer.effects).systemType)
                    THEN newParams(Head(visualizer.effects).systemType)
                    ELSE NoParameters} :
       visualizer' = [visualizer EXCEPT
                        !.parameters = reset,
                        !.effects = Append(Tail(visualizer.effects),
                                           FindEffect(visualizer.systemType, reset))]
  /\ UNCHANGED << pc, fn, args, result, rkVars, fpVars, cacheVars, queryVars, player >>

(* the fixed-point effect, its call of findFixedPoints *)
RunFixedPointEffect ==
  /\ pc = "idle"
  /\ visualizer.effects # << >>
  /\ Head(visualizer.effects).effect = "find"
  /\ CallFindFixedPointsIn({VisualizerCall(Head(visualizer.effects).systemType,
                                           Head(visualizer.effects).parameters)})

(* the fixed-point effect after the call has returned: setFixedPoints(fps) *)
SetFixedPoints ==
  /\ pc = "done" /\ fn = "findFixedPoints"
  /\ visualizer.effects # << >>
  /\ Head(visualizer.effects).effect = "find"
  /\ visualizer' = [visualizer EXCEPT
                      !.fixedPoints = setFixedPoints(visualizer.fixedPoints, result),
                      !.effects = Tail(visualizer.effects)]
  /\ pc' = "idle"
  /\ UNCHANGED << fn, args, result, rkVars, fpVars, cacheVars, queryVars, player >>

NextVisualizer ==
  \/ SelectSystem \/ ChangeParameters
  \/ RunResetEffect \/ RunFixedPointEffect \/ SetFixedPoints
  \/ CheckOrigin \/ CheckKnownCandidates
  \/ StartSeed \/ NewtonIteration \/ ReturnFindFixedPoints

SpecVisualizer == Init /\ [][NextVisualizer]_vars

(* C25: once the pending effects have run, the displayed list is the list   *)
(* findFixedPoints returned for the current systemType and the current       *)
(* parameters over [-10, 10]^2 with grid size 20; and whenever the displayed *)
(* list changes, it becomes the list just returned, whole and alone.          *)
C25_DisplayedListIsCurrent ==
  /\ [](Quiescent
         => /\ fn = "findFixedPoints"
            /\ args = VisualizerCall(visualizer.systemType, visualizer.parameters)
            /\ visualizer.fixedPoints = result)
  /\ [][visualizer.fixedPoints' # visualizer.fixedPoints
          => (Returned /\ visualizer.fixedPoints' = result)]_vars

(* the spiral was selected and its parameter a moved to -2: the effects of   *)
(* the three renders have run and the list shows the stable spiral at 0       *)
C25_Witness ==
  /\ Quiescent
  /\ visualizer.systemType = "spiral"
  /\ Has(visualizer.parameters, "spiral")
  /\ visualizer.parameters.spiral.a = -2 * Scale
  /\ Len(visualizer.fixedPoints) = 1
  /\ visualizer.fixedPoints[1].x = 0 /\ visualizer.fixedPoints[1].y = 0

----------------------------------------------------------------------------
(* The time slider of PopulationModelVisualizer, EpidemicModelVisualizer and *)
(* InteractingModelVisualizer: time, tMax and isPlaying in state, an         *)
(* animation frame while playing, a range input for the time, a Play/Pause   *)
(* button, a reset button and a number input for tMax.  The three components *)
(* share this code; they differ in T_MAX_DEFAULT (10 or 20) alone.           *)

(* const dt = 0.05 *)
FrameStep == Scale \div 20

(* the callback given to setTime by `animate`: << time, isPlaying >> after it *)
animate(prev, tMax, isPlaying) ==
  IF prev + FrameStep >= tMax THEN << tMax, FALSE >> ELSE << prev + FrameStep, isPlaying >>

(* Inputs: the values typed into the tMax input and the positions of the     *)
(* range input (min 0, max tMax, step 0.01).                                 *)
TMaxInputs == {0, Scale, 2 * Scale, T_MAX_DEFAULT}
SliderTimes(tMax) == {0, Scale \div 100, tMax \div 2, tMax}

(* requestAnimationFrame(animate), scheduled while isPlaying *)
AnimationFrame ==
  /\ player.isPlaying
  /\ \E next \in {animate(player.time, player.tMax, player.isPlaying)} :
       player' = [player EXCEPT !.time = next[1], !.isPlaying = next[2]]
  /\ UNCHANGED << pc, fn, args, result, rkVars, fpVars, cacheVars, queryVars, visualizer >>

(* onClick={() => setIsPlaying(!isPlaying)} *)
TogglePlaying ==
  /\ player' = [player EXCEPT !.isPlaying = ~player.isPlaying]
  /\ UNCHANGED << pc, fn, args, result, rkVars, fpVars, cacheVars, queryVars, visualizer >>

(* onChange={(e) => setTime(parseFloat(e.target.value))} of the range input *)
MoveTimeSlider ==
  /\ \E value \in SliderTimes(player.tMax) : player' = [player EXCEPT !.time = value]
  /\ UNCHANGED << pc, fn, args, result, rkVars, fpVars, cacheVars, queryVars, visualizer >>

(* handleReset, handleResetGraph: setTime(0); setIsPlaying(false) *)
handleReset ==
  /\ player' = [player EXCEPT !.time = 0, !.isPlaying = FALSE]
  /\ UNCHANGED << pc, fn, args, result, rkVars, fpVars, cacheVars, queryVars, visualizer >>

(* setTMax(Math.max(1, parseFloat(e.target.value) || 10)): 0 and an empty    *)
(* input give 10, a value below 1 gives 1; time is left as it is             *)
EditTMax ==
  /\ \E value \in TMaxInputs :
       player' = [player EXCEPT !.tMax = Max(Scale, IF value = 0 THEN 10 * Scale ELSE value)]
  /\ UNCHANGED << pc, fn, args, result, rkVars, fpVars, cacheVars, queryVars, visualizer >>

NextPlayer ==
  \/ AnimationFrame \/ TogglePlaying \/ MoveTimeSlider \/ handleReset \/ EditTMax

SpecPlayer == Init /\ [][NextPlayer]_vars

(* a frame while playing advances time by 0.05 when that stays below tMax, *)
(* and else sets time to tMax and stops playback                             *)
FrameRule ==
  [][AnimationFrame
       => \/ player.time' = player.time + FrameStep /\ player.time' < player.tMax
                /\ player.isPlaying'
          \/ player.time + FrameStep >= player.tMax /\ player.time' = player.tMax
                /\ ~player.isPlaying']_vars

(* C30: after any sequence of play, pause, animation-frame, time-slider,    *)
(* reset and tMax-edit events the displayed time satisfies                   *)
(* 0 <= time <= tMax.                                                        *)
C30_TimeWithinRange == 0 <= player.time /\ player.time <= player.tMax

----------------------------------------------------------------------------
(* getFixedPoints(model, params) of the interacting models: the analytical  *)
(* fixed points, each a record of x, y and a label.                          *)

(* Math.abs(denom) > 1e-10, delta > 1e-10: of a multiple of 1e-6 *)
Above1e10(v) == v > 0

(* xStar and yStar of lotkaVolterraSelfLimit *)
selfLimitPointUnsigned(p, denom) ==
  << Div(Mul(p.alpha, p.eta) + Mul(p.gamma, p.beta), denom),
     Div(Mul(p.alpha, p.delta) + Mul(p.gamma, p.epsilon), denom) >>
selfLimitPoint(p, denom) ==
  << Div(Mul(p.alpha, p.eta) + Mul(p.gamma, p.beta), denom),
     Div(Mul(p.alpha, p.delta) - Mul(p.gamma, p.epsilon), denom) >>

(* xStar and yStar of lotkaVolterraCompetition *)
competitionPoint(p, denom) ==
  << Div(p.K1 - Mul(p.a12, p.K2), denom), Div(p.K2 - Mul(p.a21, p.K1), denom) >>

(* xStar and yStar of richardson *)
richardsonPoint(p, determinant) ==
  << Div(Mul(p.richardsonBeta, p.g) + Mul(p.richardsonK, p.h), determinant),
     Div(Mul(p.richardsonL, p.g) + Mul(p.richardsonAlpha, p.h), determinant) >>

Labelled(point, label) == [x |-> point[1], y |-> point[2], label |-> label]

(* out.push(...) of a coexistence point, if (xStar >= 0 && yStar >= 0) *)
PushNonNegative(out, point) ==
  IF point[1] >= 0 /\ point[2] >= 0 THEN Append(out, Labelled(point, "coexistence")) ELSE out

getFixedPointsOf(model, p) ==
  CASE model = "lotkaVolterra" ->
         IF Above1e10(p.delta) /\ Above1e10(p.beta)
         THEN << Labelled(<< 0, 0 >>, "extinction"),
                 Labelled(<< Div(p.gamma, p.delta), Div(p.alpha, p.beta) >>,
                          "coexistence (center)") >>
         ELSE << Labelled(<< 0, 0 >>, "extinction") >>
    [] model = "lotkaVolterraSelfLimit" ->
         Only({ IF Above1e10(Abs(denom))
                THEN PushNonNegative(<< Labelled(<< 0, 0 >>, "extinction") >>,
                                     selfLimitPoint(p, denom))
                ELSE << Labelled(<< 0, 0 >>, "extinction") >>
                : denom \in {Mul(p.epsilon, p.eta) + Mul(p.beta, p.delta)} })
    [] model = "lotkaVolterraCompetition" ->
         Only({ IF Above1e10(Abs(denom))
                THEN PushNonNegative(<< Labelled(<< 0, 0 >>, "extinction"),
                                        Labelled(<< p.K1, 0 >>, "species 1 only"),
                                        Labelled(<< 0, p.K2 >>, "species 2 only") >>,
                                     competitionPoint(p, denom))
                ELSE << Labelled(<< 0, 0 >>, "extinction"),
                        Labelled(<< p.K1, 0 >>, "species 1 only"),
                        Labelled(<< 0, p.K2 >>, "species 2 only") >>
                : denom \in {Scale - Mul(p.a12, p.a21)} })
    [] model = "richardson" ->
         Only({ IF Above1e10(Abs(determinant))
                THEN << Labelled(richardsonPoint(p, determinant), "equilibrium") >>
                ELSE << >>
                : determinant \in {Mul(p.richardsonAlpha, p.richardsonBeta)
                             - Mul(p.richardsonK, p.richardsonL)} })
    [] OTHER -> << >>

getFixedPoints(model, params) ==
  Only({ getFixedPointsOf(model, p) : p \in {getParams(params)} })

(* Inputs: parameter objects for each model, every key drawn from a few     *)
(* values that include the default; among them vanishing denominators       *)
(* (beta = 0, delta = 0, a12 a21 = 1, alpha beta = k l), a negative yStar    *)
(* (gamma = 3) and a capacity K1 = 0, for which the function has no guard.   *)
Tenths(n) == n * (Scale \div 10)
EquilibriumParams(model) ==
  CASE model = "lotkaVolterra" ->
         {[alpha |-> a, beta |-> b, delta |-> d, gamma |-> g]
            : a \in {Tenths(10), Tenths(7)}, b \in {Tenths(5), Tenths(3), 0},
              d \in {Tenths(5), Tenths(19), 0}, g \in {Tenths(5), Tenths(3)}}
    [] model = "lotkaVolterraSelfLimit" ->
         {[alpha |-> a, beta |-> b, epsilon |-> e, eta |-> n, gamma |-> g]
            : a \in {Tenths(10), Tenths(7)}, b \in {Tenths(5), Tenths(3)},
              e \in {Tenths(1), 0}, n \in {Tenths(1), Tenths(3)},
              g \in {Tenths(5), Tenths(30)}}
    [] model = "lotkaVolterraCompetition" ->
         {[K1 |-> c, a12 |-> a, K2 |-> k, a21 |-> b]
            : c \in {100 * Scale, 0}, a \in {Tenths(5), Tenths(20), Tenths(3)},
              k \in {80 * Scale, 30 * Scale}, b \in {Tenths(5), Tenths(3)}}
    [] model = "richardson" ->
         {[richardsonK |-> k, richardsonL |-> l, richardsonAlpha |-> a, richardsonBeta |-> b]
            : k \in {Tenths(5), Tenths(2)}, l \in {Tenths(5), Tenths(2)},
              a \in {Tenths(2), Tenths(7)}, b \in {Tenths(2), Tenths(3)}}
EquilibriumModels ==
  {"lotkaVolterra", "lotkaVolterraSelfLimit", "lotkaVolterraCompetition", "richardson"}

CallGetFixedPoints ==
  /\ Idle
  /\ \E model \in EquilibriumModels :
       \E params \in EquilibriumParams(model) \cup {NoParameters} :
         /\ args' = [model |-> model, params |-> params]
         /\ result' = getFixedPoints(model, params)
  /\ fn' = "getFixedPoints"
  /\ pc' = "done"
  /\ UNCHANGED << rkVars, fpVars, cacheVars, queryVars, uiVars >>

NextEquilibria == CallGetFixedPoints

SpecEquilibria == Init /\ [][NextEquilibria]_vars

(* vectorField(model, params, x, y) at a returned point.  With K1 = 0 the    *)
(* quotients x / K1 and a12 y / K1 are NaN or infinite and so is dx, and     *)
(* likewise dy with K2 = 0: NaN stands for a value that is not finite.       *)
fieldAtOf(model, p, px, py) ==
  IF model = "lotkaVolterraCompetition" /\ (p.K1 = 0 \/ p.K2 = 0)
  THEN << IF p.K1 = 0 THEN NaN
          ELSE Mul(Mul(p.r1, px), Scale - Div(px, p.K1) - Div(Mul(p.a12, py), p.K1)),
          IF p.K2 = 0 THEN NaN
          ELSE Mul(Mul(p.r2, py), Scale - Div(py, p.K2) - Div(Mul(p.a21, px), p.K2)) >>
  ELSE interactingVectorFieldOf(model, p, px, py)
fieldAt(model, params, point) ==
  Only({ fieldAtOf(model, p, point.x, point.y) : p \in {getParams(params)} })

GotFixedPoints == pc = "done" /\ fn = "getFixedPoints"

ZeroAllowance(point) == 2 * ((Scale + Abs(point.x) + Abs(point.y)) \div Scale)

NearlyZero(f, point) ==
  /\ f[1] # NaN /\ f[2] # NaN
  /\ Abs(f[1]) <= ZeroAllowance(point) /\ Abs(f[2]) <= ZeroAllowance(point)

(* the capacities the competition field divides by are not zero *)
CapacitiesNonZero ==
  args.model = "lotkaVolterraCompetition"
    => (getParams(args.params).K1 # 0 /\ getParams(args.params).K2 # 0)

============================================================================
